---------------------------- MODULE Spec2Model ----------------------------
(***************************************************************************)
(* Recommendation core of the learning platform: the content matcher       *)
(* (generate_recommendations, in app.py and in                             *)
(* modules/recommendation_methods.py), the profile vectorizer              *)
(* (vectorize_user_profile), the peer similarity engine (KNN_similarity)   *)
(* and the dataset based student lookup (get_user_recommendations).        *)
(*                                                                         *)
(* Python values are records [t, s, n]: t is the Python type, s the        *)
(* characters of a str, n the number of an int (a float is held in         *)
(* tenths).  A str is a sequence of one-character strings, so that         *)
(* lower(), str(), the `in` substring test and string order are computed.  *)
(***************************************************************************)
EXTENDS Integers, Sequences, FiniteSets, TLC

VARIABLES
    rt_db,        \* TRUE when the Realtime Database reference was obtained
    users,        \* the /users node: uid -> stored profile
    contents,     \* the /contents node: [shape, entries]
    dataset,      \* rows of dataset/dataset_etudiants.csv
    module_df,    \* recommender.py: the module-level df
    module_cosine_sim, \* recommender.py: the rows the module-level cosine_sim was computed from
    add_user_pc,  \* add_user_to_dataset: the call in progress, if any
    call,         \* the last call of a recommendation function and its arguments
    ret,          \* what that call did: [status, recs, peers, students]
    vec_profile,  \* vectorize_user_profile: the user_profile argument object
    vec_terms,    \* vectorize_user_profile: the all_possible_terms argument object
    vec_args0,    \* the two argument objects as they were first passed
    vec_out,      \* the vector returned by the last call
    vec_prev,     \* the vector returned by the call before
    vec_calls     \* number of calls so far (capped)

module_state == <<module_df, module_cosine_sim, add_user_pc>>

vars == <<rt_db, users, contents, dataset, module_state, call, ret,
          vec_profile, vec_terms, vec_args0, vec_out, vec_prev, vec_calls>>

-----------------------------------------------------------------------------
(* Bounds of the model                                                     *)

MaxContents == 2
MaxVecCalls == 2
MaxRows == 4

(* Program constants                                                       *)

TopN == 10
VideoIdLen == 11

-----------------------------------------------------------------------------
(* Python values                                                           *)

PyStr(s)   == [t |-> "str",   s |-> s,    n |-> 0]
PyInt(n)   == [t |-> "int",   s |-> <<>>, n |-> n]
PyFloat(n) == [t |-> "float", s |-> <<>>, n |-> n]
PyNone     == [t |-> "none",  s |-> <<>>, n |-> 0]
PyList     == [t |-> "list",  s |-> <<>>, n |-> 0]

Min(a, b) == IF a <= b THEN a ELSE b

UpperLetters ==
    <<"A","B","C","D","E","F","G","H","I","J","K","L","M",
      "N","O","P","Q","R","S","T","U","V","W","X","Y","Z">>
LowerLetters ==
    <<"a","b","c","d","e","f","g","h","i","j","k","l","m",
      "n","o","p","q","r","s","t","u","v","w","x","y","z">>

LowerChar(c) ==
    IF \E i \in 1..26 : UpperLetters[i] = c
    THEN LowerLetters[CHOOSE i \in 1..26 : UpperLetters[i] = c]
    ELSE c

\* str.lower()
Lower(s) == [i \in 1..Len(s) |-> LowerChar(s[i])]

Digits == <<"0","1","2","3","4","5","6","7","8","9">>

RECURSIVE IntStr(_)
IntStr(n) == IF n < 10 THEN <<Digits[n + 1]>>
             ELSE IntStr(n \div 10) \o <<Digits[(n % 10) + 1]>>

\* str(x) of a Python value
Str(v) ==
    CASE v.t = "str"   -> v.s
      [] v.t = "int"   -> IntStr(v.n)
      [] v.t = "float" -> IntStr(v.n \div 10) \o <<".">> \o IntStr(v.n % 10)
      [] v.t = "none"  -> <<"N","o","n","e">>
      [] OTHER         -> <<"[","]">>

\* k in s, for two str
IsSubstring(k, s) ==
    \E i \in 0..(Len(s) - Len(k)) : SubSeq(s, i + 1, i + Len(k)) = k

StartsWithAt(s, pre, i) ==
    /\ i + Len(pre) - 1 <= Len(s)
    /\ SubSeq(s, i, i + Len(pre) - 1) = pre

\* Code point order of the characters the model uses (ASCII)
AsciiOrder ==
    <<" ","#","%","&","-",".","/">> \o Digits \o <<":","=","?">>
    \o UpperLetters \o <<"[","]","_">> \o LowerLetters

CharCode(c) == CHOOSE i \in 1..Len(AsciiOrder) : AsciiOrder[i] = c

\* a < b for two str (lexicographic by code point)
RECURSIVE StrLess(_, _)
StrLess(a, b) ==
    IF Len(b) = 0 THEN FALSE
    ELSE IF Len(a) = 0 THEN TRUE
    ELSE IF a[1] = b[1] THEN StrLess(Tail(a), Tail(b))
    ELSE CharCode(a[1]) < CharCode(b[1])

-----------------------------------------------------------------------------
(* extract_youtube_id: re.match of                                         *)
(*   (https?://)?(www\.)?(youtube|youtu|youtube-nocookie)\.(com|be)/       *)
(*   (watch\?v=|embed/|v/|.+\?v=)?([^&=%\?]{11})                           *)
(* anchored at the start of the url; the result is group 6.                *)

\* position after an optional prefix; a url where the prefix matches cannot
\* match the rest of the pattern at the same position, so taking the prefix
\* whenever it matches is what backtracking finds
AfterOptional(s, pres, i) ==
    IF \E k \in 1..Len(pres) : StartsWithAt(s, pres[k], i)
    THEN LET k == CHOOSE k \in 1..Len(pres) :
                     /\ StartsWithAt(s, pres[k], i)
                     /\ \A j \in 1..(k - 1) : ~StartsWithAt(s, pres[j], i)
         IN  i + Len(pres[k])
    ELSE i

YoutubeHosts ==
    <<  <<"y","o","u","t","u","b","e">>,
        <<"y","o","u","t","u">>,
        <<"y","o","u","t","u","b","e","-","n","o","c","o","o","k","i","e">> >>
YoutubeTlds == << <<"c","o","m">>, <<"b","e">> >>

\* the positions right after "<host>.<tld>/" (at most one)
YoutubePrefixEnds(s) ==
    LET i0 == AfterOptional(s, << <<"h","t","t","p","s",":","/","/">>,
                                  <<"h","t","t","p",":","/","/">> >>, 1)
        i1 == AfterOptional(s, << <<"w","w","w",".">> >>, i0)
    IN  { i1 + Len(YoutubeHosts[h]) + 1 + Len(YoutubeTlds[d]) + 1 :
            <<h, d>> \in { x \in (1..3) \X (1..2) :
                /\ StartsWithAt(s, YoutubeHosts[x[1]] \o <<".">>
                                   \o YoutubeTlds[x[2]] \o <<"/">>, i1) } }

\* where group 6 may start, in the order the alternatives of group 5 are tried
YoutubeIdStarts(s, p) ==
    LET alt(pre) == IF StartsWithAt(s, pre, p) THEN <<p + Len(pre)>> ELSE <<>>
        qmarks == { j \in (p + 1)..Len(s) : StartsWithAt(s, <<"?","v","=">>, j) }
        RECURSIVE greedy(_)
        greedy(js) == IF js = {} THEN <<>>
                      ELSE LET j == CHOOSE x \in js : \A y \in js : y <= x
                           IN  <<j + 3>> \o greedy(js \ {j})
    IN  alt(<<"w","a","t","c","h","?","v","=">>)
        \o alt(<<"e","m","b","e","d","/">>)
        \o alt(<<"v","/">>)
        \o greedy(qmarks)
        \o <<p>>

YoutubeIdAt(s, q) ==
    /\ q + VideoIdLen - 1 <= Len(s)
    /\ \A i \in q..(q + VideoIdLen - 1) : s[i] \notin {"&", "=", "%", "?"}

\* `not x` of a Python value
Falsy(v) ==
    \/ v.t = "none"
    \/ v.t = "str" /\ v.s = <<>>
    \/ v.t \in {"int", "float"} /\ v.n = 0

\* extract_youtube_id(url) for url None or a str: a str or None
extract_youtube_id(url) ==
    IF Falsy(url) THEN PyNone
    ELSE LET ps == YoutubePrefixEnds(url.s)
         IN  IF ps = {} THEN PyNone
             ELSE LET p  == CHOOSE x \in ps : TRUE
                      qs == YoutubeIdStarts(url.s, p)
                      ok == { k \in 1..Len(qs) : YoutubeIdAt(url.s, qs[k]) }
                  IN  IF ok = {} THEN PyNone
                      ELSE LET k == CHOOSE x \in ok : \A y \in ok : x <= y
                           IN  PyStr(SubSeq(url.s, qs[k], qs[k] + VideoIdLen - 1))

-----------------------------------------------------------------------------
(* Content matcher: generate_recommendations                               *)
(*                                                                         *)
(* A dict of the store is [has, f]: the keys it holds and their values.    *)
(* The /contents node is [shape, entries]; an entry is [key, isdict, item],*)
(* key being the storage key of a mapping entry.                           *)

ItemFields == {"id", "Title", "Category", "Description", "Link", "Rating"}

\* dict.get(k, default)
Get(d, k, default) == IF k \in d.has THEN d.f[k] ELSE default

Ok(recs)   == [status |-> "ok",    exc |-> "",  recs |-> recs]
Raise(exc) == [status |-> "raise", exc |-> exc, recs |-> <<>>]

\* [{"id": cid, **c_data} for cid, c_data in raw.items() if isinstance(c_data, dict)]
\* [{"id": index, **item} for index, item in enumerate(raw) if isinstance(item, dict)]
\* the item's own "id" key, when it has one, replaces the one put first
all_contents_list(raw) ==
    LET n      == Len(raw.entries)
        IsDict(i) == raw.entries[i].isdict
        idx    == SelectSeq([i \in 1..n |-> i], IsDict)
        given(i) == IF raw.shape = "dict" THEN PyStr(raw.entries[i].key)
                    ELSE PyInt(i - 1)
        with_id(i) ==
            LET it == raw.entries[i].item
            IN  [has |-> it.has \cup {"id"},
                 f   |-> [it.f EXCEPT !["id"] =
                             IF "id" \in it.has THEN it.f["id"] ELSE given(i)]]
    IN  [k \in 1..Len(idx) |-> with_id(idx[k])]

\* [skill.lower() for skill in user_profile.get(field, []) if isinstance(skill, str)]
lower_strs(tags) ==
    LET IsStr(x) == x.t = "str"
        strs == SelectSeq(tags, IsStr)
    IN  [i \in 1..Len(strs) |-> Lower(strs[i].s)]

\* variant: only the str ids are kept (isinstance(cid, str))
interacted_course_ids_str_only(user_profile) ==
    LET IsId(x) == x.t = "str"
        ids == SelectSeq(user_profile.interacted, IsId)
    IN  [i \in 1..Len(ids) |-> Str(ids[i])]

\* [str(cid) for cid in user_profile.get("Derniers_Cours_Interagis", [])
\*  if isinstance(cid, (int, str))]
interacted_course_ids(user_profile) ==
    LET IsId(x) == x.t \in {"int", "str"}
        ids == SelectSeq(user_profile.interacted, IsId)
    IN  [i \in 1..Len(ids) |-> Str(ids[i])]

InSeq(x, seq) == \E i \in 1..Len(seq) : seq[i] = x
SeqSet(seq) == { seq[i] : i \in 1..Len(seq) }

\* content_id in interacted_course_ids
is_interacted(content_id, interacted) == InSeq(content_id, interacted)

\* variant: all(...) in place of any(...)
keyword_match_all(keywords, category, description, title) ==
    \A k \in 1..Len(keywords) :
        \/ IsSubstring(keywords[k], category)
        \/ IsSubstring(keywords[k], description)
        \/ IsSubstring(keywords[k], title)

\* any(keyword in content_category or keyword in content_description
\*     or keyword in content_title for keyword in keywords)
keyword_match(keywords, category, description, title) ==
    \E k \in 1..Len(keywords) :
        \/ IsSubstring(keywords[k], category)
        \/ IsSubstring(keywords[k], description)
        \/ IsSubstring(keywords[k], title)

UnknownTitle == PyStr(<<"U","n","k","n","o","w","n"," ","T","i","t","l","e">>)
UnknownCategory ==
    PyStr(<<"U","n","k","n","o","w","n"," ","C","a","t","e","g","o","r","y">>)
NoDescription ==
    PyStr(<<"N","o"," ","d","e","s","c","r","i","p","t","i","o","n"," ",
            "a","v","a","i","l","a","b","l","e">>)
NoLink == PyStr(<<"#">>)
EmbedPrefix ==
    <<"h","t","t","p","s",":","/","/","w","w","w",".","y","o","u","t","u","b","e",
      ".","c","o","m","/","e","m","b","e","d","/">>

\* variant: the record is built without the default of the Rating field
recommendation_rating_as_stored(content_id, content_item, youtube_id) ==
    [id          |-> content_id,
     Title       |-> Get(content_item, "Title", UnknownTitle),
     Category    |-> Get(content_item, "Category", UnknownCategory),
     Description |-> Get(content_item, "Description", NoDescription),
     Link        |-> Get(content_item, "Link", NoLink),
     EmbedLink   |-> IF Falsy(youtube_id) THEN PyNone
                     ELSE PyStr(EmbedPrefix \o youtube_id.s),
     Rating      |-> Get(content_item, "Rating", PyNone)]

recommendation(content_id, content_item, youtube_id) ==
    [id          |-> content_id,
     Title       |-> Get(content_item, "Title", UnknownTitle),
     Category    |-> Get(content_item, "Category", UnknownCategory),
     Description |-> Get(content_item, "Description", NoDescription),
     Link        |-> Get(content_item, "Link", NoLink),
     EmbedLink   |-> IF Falsy(youtube_id) THEN PyNone
                     ELSE PyStr(EmbedPrefix \o youtube_id.s),
     Rating      |-> Get(content_item, "Rating", PyInt(0))]

\* the for loop over all_contents_list; extract_defined says whether the name
\* extract_youtube_id is bound in the module the function lives in
RECURSIVE content_loop(_, _, _, _, _, _)
content_loop(items, i, keywords, interacted, extract_defined, recs) ==
    IF i > Len(items) THEN Ok(recs)
    ELSE
    LET content_item == items[i]
        content_id   == Str(Get(content_item, "id", PyNone))
        category     == Get(content_item, "Category", PyStr(<<>>))
        description  == Get(content_item, "Description", PyStr(<<>>))
        title        == Get(content_item, "Title", PyStr(<<>>))
        link         == Get(content_item, "Link", PyNone)
    IN  IF is_interacted(content_id, interacted)
        THEN content_loop(items, i + 1, keywords, interacted, extract_defined, recs)
        ELSE IF category.t # "str" \/ description.t # "str" \/ title.t # "str"
        THEN Raise("AttributeError")
        ELSE IF keyword_match(keywords, Lower(category.s), Lower(description.s),
                              Lower(title.s))
        THEN IF ~extract_defined THEN Raise("NameError")
             ELSE IF ~Falsy(link) /\ link.t # "str" THEN Raise("TypeError")
             ELSE content_loop(items, i + 1, keywords, interacted, extract_defined,
                      Append(recs, recommendation(content_id, content_item,
                                                  extract_youtube_id(link))))
        ELSE content_loop(items, i + 1, keywords, interacted, extract_defined, recs)

IsNumber(v) == v.t \in {"int", "float"}
NumTenths(v) == IF v.t = "int" THEN 10 * v.n ELSE v.n

\* a < b on two sort keys that Python can compare
KeyLess(a, b) ==
    IF IsNumber(a) THEN NumTenths(a) < NumTenths(b) ELSE StrLess(a.s, b.s)

Comparable(a, b) ==
    \/ IsNumber(a) /\ IsNumber(b)
    \/ a.t = "str" /\ b.t = "str"

\* variant: rec goes before the first record whose key is not larger than its
\* own, so that records of equal key come out in reverse order
RECURSIVE insert_desc_ties_first(_, _)
insert_desc_ties_first(sorted, rec) ==
    IF sorted = <<>> THEN <<rec>>
    ELSE IF ~KeyLess(rec.Rating, Head(sorted).Rating)
         THEN <<rec>> \o sorted
         ELSE <<Head(sorted)>> \o insert_desc_ties_first(Tail(sorted), rec)

\* one step of a stable descending sort: rec goes before the first record whose
\* key is smaller than its own
RECURSIVE insert_desc(_, _)
insert_desc(sorted, rec) ==
    IF sorted = <<>> THEN <<rec>>
    ELSE IF KeyLess(Head(sorted).Rating, rec.Rating)
         THEN <<rec>> \o sorted
         ELSE <<Head(sorted)>> \o insert_desc(Tail(sorted), rec)

RECURSIVE sort_from(_, _, _)
sort_from(recs, i, sorted) ==
    IF i > Len(recs) THEN sorted
    ELSE sort_from(recs, i + 1, insert_desc(sorted, recs[i]))

\* sorted(recommendations, key=lambda rec: rec.get("Rating", 0), reverse=True):
\* stable; TypeError when two of the keys cannot be compared
sorted_recommendations(recs) ==
    IF \E i, j \in 1..Len(recs) : i # j /\ ~Comparable(recs[i].Rating, recs[j].Rating)
    THEN Raise("TypeError")
    ELSE Ok(sort_from(recs, 1, <<>>))

\* variant: the slice is missing
top_recommendations_all(sorted) == sorted

\* sorted_recommendations[:10]
top_recommendations(sorted) == SubSeq(sorted, 1, Min(Len(sorted), TopN))

\* generate_recommendations of app.py
generate_recommendations(user_profile, all_contents_raw) ==
    IF ~user_profile.stored \/ all_contents_raw.shape = "none" THEN Ok(<<>>)
    ELSE IF all_contents_raw.shape \notin {"dict", "list"} THEN Ok(<<>>)
    ELSE
    LET items          == all_contents_list(all_contents_raw)
        user_skills    == lower_strs(user_profile.skills)
        user_interests == lower_strs(user_profile.interests)
        interacted     == interacted_course_ids(user_profile)
        keywords       == user_skills \o user_interests
        looped         == content_loop(items, 1, keywords, interacted, TRUE, <<>>)
    IN  IF looped.status = "raise" THEN looped
        ELSE LET sorted == sorted_recommendations(looped.recs)
             IN  IF sorted.status = "raise" THEN sorted
                 ELSE Ok(top_recommendations(sorted.recs))

\* generate_recommendations of modules/recommendation_methods.py: the filter
\* of the interests comprehension reads the unbound name `item`, which raises
\* NameError on the first interest, and extract_youtube_id is not a name of
\* that module
generate_recommendations_module(user_profile, all_contents_raw) ==
    IF ~user_profile.stored \/ all_contents_raw.shape = "none" THEN Ok(<<>>)
    ELSE IF all_contents_raw.shape \notin {"dict", "list"} THEN Ok(<<>>)
    ELSE
    LET items       == all_contents_list(all_contents_raw)
        user_skills == lower_strs(user_profile.skills)
    IN  IF user_profile.interests # <<>> THEN Raise("NameError")
        ELSE
        LET interacted == interacted_course_ids(user_profile)
            keywords   == user_skills \o <<>>
            looped     == content_loop(items, 1, keywords, interacted, FALSE, <<>>)
        IN  IF looped.status = "raise" THEN looped
            ELSE LET sorted == sorted_recommendations(looped.recs)
                 IN  IF sorted.status = "raise" THEN sorted
                     ELSE Ok(top_recommendations(sorted.recs))

-----------------------------------------------------------------------------
(* The store and the calls                                                 *)

Uids == {"u1", "u2", "u3"}

\* a profile that is not in the store: `.get() or {}` gives {}; account says
\* whether the authentication service knows the uid, n_interactions is the
\* field Nombre_Interactions
NoProfile ==
    [stored |-> FALSE, name |-> PyNone, bio |-> PyNone, photo_url |-> PyNone,
     skills |-> <<>>, interests |-> <<>>, communities |-> <<>>,
     interacted |-> <<>>, account |-> FALSE, n_interactions |-> 0]

NoContents == [shape |-> "none", entries |-> <<>>]

\* what the remote text service did during a call: nothing asked, a text
\* (its lines), an exception, or a response without candidates
NoRemote == [outcome |-> "none", lines |-> <<>>]

NoCall == [op |-> "none", uid |-> "", k |-> 0, id |-> PyNone, lib |-> "",
           lib2 |-> "", fetch |-> "", remote |-> NoRemote]
NoReport == [kind |-> "none", error |-> "", KNN |-> <<>>, SVD |-> <<>>]
\* the context a handler gives to its template
NoPage == [template |-> "", recommendations |-> <<>>, general_courses |-> <<>>,
           interacted_courses |-> <<>>, error |-> ""]
NoRet  == [status |-> "none", exc |-> "", recs |-> <<>>, peers |-> <<>>,
           students |-> <<>>, ratings |-> <<>>, report |-> NoReport,
           logged |-> "", page |-> NoPage, value |-> PyNone,
           terms |-> <<>>, vectors |-> [u \in Uids |-> <<>>]]

RetOf(r) == [NoRet EXCEPT !.status = r.status, !.exc = r.exc, !.recs = r.recs]

Rust    == <<"r","u","s","t">>
Systems == <<"s","y","s","t","e","m","s">>
Food    == <<"f","o","o","d">>

NoFields == [k \in ItemFields |-> PyNone]
NoItem   == [has |-> {}, f |-> NoFields]

WatchUrl ==
    <<"h","t","t","p","s",":","/","/","w","w","w",".","y","o","u","t","u","b","e",
      ".","c","o","m","/","w","a","t","c","h","?","v","=",
      "d","Q","w","4","w","9","W","g","X","c","Q">>

ItemRust ==
    [has |-> {"Title", "Category", "Rating"},
     f   |-> [NoFields EXCEPT
                !["Title"] = PyStr(<<"I","n","t","r","o"," ","t","o"," ","R","u","s","t">>),
                !["Category"] = PyStr(<<"S","y","s","t","e","m","s">>),
                !["Rating"] = PyInt(4)]]
ItemCooking ==
    [has |-> {"Title", "Category", "Rating"},
     f   |-> [NoFields EXCEPT
                !["Title"] = PyStr(<<"C","o","o","k","i","n","g"," ","1","0","1">>),
                !["Category"] = PyStr(<<"F","o","o","d">>),
                !["Rating"] = PyInt(9)]]
ItemVideo ==
    [has |-> {"Description", "Link", "Rating"},
     f   |-> [NoFields EXCEPT
                !["Description"] = PyStr(<<"L","e","a","r","n"," ","R","U","S","T">>),
                !["Link"] = PyStr(WatchUrl),
                !["Rating"] = PyInt(9)]]
ItemOwnId ==
    [has |-> {"id", "Title"},
     f   |-> [NoFields EXCEPT
                !["id"] = PyInt(1),
                !["Title"] = PyStr(<<"R","u","s","t">>)]]

\* what one entry of the /contents node may hold: a content item, or a value
\* that is not a record (a hole of a sparse list)
EntryPool ==
    { [isdict |-> TRUE, item |-> it] :
        it \in {ItemRust, ItemCooking, ItemVideo, ItemOwnId} }
    \cup { [isdict |-> FALSE, item |-> NoItem] }

SkillsPool == { <<>>, <<PyStr(<<"R","u","s","t">>), PyInt(5)>>, <<PyStr(Food)>> }
InterestsPool == { <<>>, <<PyStr(Systems), PyInt(7)>> }
InteractedPool ==
    { <<>>, <<PyInt(0)>>, <<PyStr(<<"1">>), PyStr(<<"c","1">>), PyNone>> }

\* the storage key the store gives the n-th entry of a mapping
ContentKey(n) == <<"c">> \o IntStr(n)

\* a write to /contents: one more entry, of a list or of a mapping
contents_append(shape, e) ==
    /\ contents.shape \in {"none", shape}
    /\ Len(contents.entries) < MaxContents
    /\ contents' = [shape   |-> shape,
                    entries |-> Append(contents.entries,
                        [key    |-> IF shape = "dict"
                                    THEN ContentKey(Len(contents.entries))
                                    ELSE <<>>,
                         isdict |-> e.isdict,
                         item   |-> e.item])]
    /\ call' = NoCall /\ ret' = NoRet
    /\ UNCHANGED <<rt_db, users, dataset, module_state, vec_profile, vec_terms, vec_args0,
                   vec_out, vec_prev, vec_calls>>

\* the same entries written once more (under fresh keys in a mapping)
contents_reimport ==
    /\ contents.shape \in {"list", "dict"}
    /\ Len(contents.entries) <= TopN
    /\ contents' = [contents EXCEPT !.entries =
           contents.entries \o
           [i \in 1..Len(contents.entries) |->
               [contents.entries[i] EXCEPT !.key =
                   IF contents.shape = "dict"
                   THEN contents.entries[i].key \o <<"_">> ELSE <<>>]]]
    /\ call' = NoCall /\ ret' = NoRet
    /\ UNCHANGED <<rt_db, users, dataset, module_state, vec_profile, vec_terms, vec_args0,
                   vec_out, vec_prev, vec_calls>>

\* /contents holding a value that is neither a list nor a mapping
contents_scalar ==
    /\ contents.shape = "none"
    /\ contents' = [shape |-> "other", entries |-> <<>>]
    /\ call' = NoCall /\ ret' = NoRet
    /\ UNCHANGED <<rt_db, users, dataset, module_state, vec_profile, vec_terms, vec_args0,
                   vec_out, vec_prev, vec_calls>>

\* first sign-in of user u: the profile is created with empty tag lists
profile_create(u) ==
    /\ ~users[u].stored
    /\ users' = [users EXCEPT ![u] =
           [NoProfile EXCEPT !.stored = TRUE, !.name = PyStr(<<"A","n","n">>)]]
    /\ call' = NoCall /\ ret' = NoRet
    /\ UNCHANGED <<rt_db, contents, dataset, module_state, vec_profile, vec_terms, vec_args0,
                   vec_out, vec_prev, vec_calls>>

\* a write of one list field of the stored profile of user u, by
\* update_profile or by another writer of the store (no handler of app.py
\* writes the interaction list or a tag that is not a string)
profile_write(u, field, value) ==
    /\ users[u].stored
    /\ users[u][field] # value
    /\ users' = [users EXCEPT ![u][field] = value]
    /\ call' = NoCall /\ ret' = NoRet
    /\ UNCHANGED <<rt_db, contents, dataset, module_state, vec_profile, vec_terms, vec_args0,
                   vec_out, vec_prev, vec_calls>>

\* home / profile_page of app.py: generate_recommendations(user_profile, all_contents_raw)
call_generate_recommendations(u) ==
    /\ call' = [NoCall EXCEPT !.op = "content_app", !.uid = u]
    /\ ret' = RetOf(generate_recommendations(users[u], contents))
    /\ UNCHANGED <<rt_db, users, contents, dataset, module_state, vec_profile, vec_terms,
                   vec_args0, vec_out, vec_prev, vec_calls>>

\* the same call on the copy in modules/recommendation_methods.py
call_generate_recommendations_module(u) ==
    /\ call' = [NoCall EXCEPT !.op = "content_module", !.uid = u]
    /\ ret' = RetOf(generate_recommendations_module(users[u], contents))
    /\ UNCHANGED <<rt_db, users, contents, dataset, module_state, vec_profile, vec_terms,
                   vec_args0, vec_out, vec_prev, vec_calls>>

NoDataset == <<>>

\* no call of add_user_to_dataset is in progress
NoAdd == [at |-> "idle", updated_df |-> <<>>]

InitContent ==
    /\ rt_db = TRUE
    /\ users = [u \in Uids |-> NoProfile]
    /\ contents = NoContents
    /\ dataset = NoDataset
    /\ module_df = NoDataset
    /\ module_cosine_sim = NoDataset
    /\ add_user_pc = NoAdd
    /\ call = NoCall
    /\ ret = NoRet
    /\ vec_profile = NoProfile
    /\ vec_terms = <<>>
    /\ vec_args0 = [profile |-> NoProfile, terms |-> <<>>]
    /\ vec_out = <<>>
    /\ vec_prev = <<>>
    /\ vec_calls = 0

NextContent ==
    \/ \E shape \in {"list", "dict"}, e \in EntryPool : contents_append(shape, e)
    \/ contents_reimport
    \/ contents_scalar
    \/ profile_create("u1")
    \/ \E sk \in SkillsPool : profile_write("u1", "skills", sk)
    \/ \E it \in InterestsPool : profile_write("u1", "interests", it)
    \/ \E ia \in InteractedPool : profile_write("u1", "interacted", ia)
    \/ call_generate_recommendations("u1")
    \/ call_generate_recommendations_module("u1")

SpecContent == InitContent /\ [][NextContent]_vars

-----------------------------------------------------------------------------
(* Profile vectorizer: vectorize_user_profile                              *)

\* [str(item).lower() for item in user_profile.get(field, [])
\*  if isinstance(item, (str, int, float))]
scalar_terms(tags) ==
    LET IsScalar(x) == x.t \in {"str", "int", "float"}
        scalars == SelectSeq(tags, IsScalar)
    IN  [i \in 1..Len(scalars) |-> Lower(Str(scalars[i]))]

profile_terms(user_profile) ==
    scalar_terms(user_profile.skills) \o scalar_terms(user_profile.interests)
    \o scalar_terms(user_profile.communities)

\* list.index(term): the first position holding term, 0 for ValueError
list_index(terms, term) ==
    IF InSeq(term, terms)
    THEN CHOOSE i \in 1..Len(terms) :
             /\ terms[i] = term
             /\ \A j \in 1..(i - 1) : terms[j] # term
    ELSE 0

\* the for loop: vector[index] = 1 for every term found, a term not found is
\* passed over
RECURSIVE vectorize_loop(_, _, _, _)
vectorize_loop(terms, pterms, j, vector) ==
    IF j > Len(pterms) THEN vector
    ELSE LET index == list_index(terms, pterms[j])
         IN  vectorize_loop(terms, pterms, j + 1,
                 IF index = 0 THEN vector ELSE [vector EXCEPT ![index] = 1])

\* variant: a term that is not found is appended to all_possible_terms
vectorize_appending(user_profile, all_possible_terms) ==
    LET pterms == profile_terms(user_profile)
        IsNew(t) == ~InSeq(t, all_possible_terms)
        grown  == all_possible_terms \o SelectSeq(pterms, IsNew)
    IN  [vector |-> vectorize_loop(all_possible_terms, pterms, 1,
                        [i \in 1..Len(all_possible_terms) |-> 0]),
         user_profile |-> user_profile,
         all_possible_terms |-> grown]

\* variant: the terms are looked up as they are, not lowercased
vectorize_no_lower(user_profile, all_possible_terms) ==
    LET IsScalar(x) == x.t \in {"str", "int", "float"}
        raw(tags) == LET sc == SelectSeq(tags, IsScalar)
                     IN  [i \in 1..Len(sc) |-> Str(sc[i])]
        pterms == raw(user_profile.skills) \o raw(user_profile.interests)
                  \o raw(user_profile.communities)
    IN  [vector |-> vectorize_loop(all_possible_terms, pterms, 1,
                        [i \in 1..Len(all_possible_terms) |-> 0]),
         user_profile |-> user_profile,
         all_possible_terms |-> all_possible_terms]

\* vectorize_user_profile: the vector returned, and the two argument objects as
\* the call leaves them (it only reads them)
vectorize_user_profile(user_profile, all_possible_terms) ==
    [vector |-> vectorize_loop(all_possible_terms, profile_terms(user_profile), 1,
                    [i \in 1..Len(all_possible_terms) |-> 0]),
     user_profile |-> user_profile,
     all_possible_terms |-> all_possible_terms]

\* sorted(list(all_terms)): the terms in ascending order, each once
RECURSIVE sorted_terms(_)
sorted_terms(terms) ==
    IF terms = {} THEN <<>>
    ELSE LET least == CHOOSE t \in terms : \A u \in terms : ~StrLess(u, t)
         IN  <<least>> \o sorted_terms(terms \ {least})

-----------------------------------------------------------------------------
(* Peer similarity engine: KNN_similarity                                  *)

\* the order in which the store lists the users
UidOrder == <<"u1", "u2", "u3">>

\* get_all_users_for_recommendation: the stored users, {} without the database
get_all_users_for_recommendation ==
    IF rt_db THEN { u \in Uids : users[u].stored } ELSE {}

\* the keys of a dict of users, in order
uid_list(uids) == LET In(u) == u \in uids IN SelectSeq(UidOrder, In)

\* {uid: data for uid, data in all_users_data.items() if uid != current_user_id}
other_users_data(all_users_data, current_user_id) ==
    all_users_data \ {current_user_id}

\* variant: the terms are collected from the skills alone
all_terms_of_skills(all_users_data) ==
    UNION { SeqSet(scalar_terms(users[u].skills)) : u \in all_users_data }

\* the terms of all users of all_users_data
all_terms(all_users_data) ==
    UNION { SeqSet(profile_terms(users[u])) : u \in all_users_data }

Dot(a, b) ==
    LET RECURSIVE sum(_)
        sum(i) == IF i = 0 THEN 0 ELSE a[i] * b[i] + sum(i - 1)
    IN  sum(Len(a))

\* cosine similarity of a to b is below that of a to c; a zero vector has
\* similarity 0 to every vector (distance 1)
CosineLess(a, b, c) ==
    LET na == Dot(a, a)
        numb == IF na * Dot(b, b) = 0 THEN 0 ELSE Dot(a, b) * Dot(a, b)
        denb == IF na * Dot(b, b) = 0 THEN 1 ELSE Dot(b, b)
        numc == IF na * Dot(c, c) = 0 THEN 0 ELSE Dot(a, c) * Dot(a, c)
        denc == IF na * Dot(c, c) = 0 THEN 1 ELSE Dot(c, c)
    IN  numb * denc < numc * denb

\* variant: the reshaped vector itself, 2-dimensional
kneighbors_query_2d(current_user_vector) ==
    [ndim |-> 2, rows |-> <<current_user_vector>>]

\* the argument of nn.kneighbors: [current_user_vector.reshape(1, -1)], a list
\* holding one 2-dimensional array, which is 3-dimensional
kneighbors_query(current_user_vector) ==
    [ndim |-> 3, rows |-> <<current_user_vector>>]

\* NearestNeighbors(n_neighbors=k, metric='cosine').fit(fit_X).kneighbors(X):
\* ValueError unless X is 2-dimensional; else the indices (from 0) of the k
\* rows of fit_X nearest to the row of X, nearest first
kneighbors(fit_X, X, n_neighbors) ==
    IF X.ndim # 2 THEN [status |-> "raise", exc |-> "ValueError", indices |-> <<>>]
    ELSE
    LET q == X.rows[1]
        Closer(i, j) == \/ CosineLess(q, fit_X[j], fit_X[i])
                        \/ ~CosineLess(q, fit_X[i], fit_X[j]) /\ i < j
        rank(i) == Cardinality({ j \in 1..Len(fit_X) : j # i /\ Closer(j, i) }) + 1
    IN  [status |-> "ok", exc |-> "",
         indices |-> [r \in 1..n_neighbors |->
                        (CHOOSE i \in 1..Len(fit_X) : rank(i) = r) - 1]]

UserPrefix == <<"U","s","e","r"," ">>
NoBio == PyStr(<<"N","o"," ","b","i","o"," ","a","v","a","i","l","a","b","l","e",".">>)
DefaultAvatar ==
    PyStr(<<"/","s","t","a","t","i","c","/","d","e","f","a","u","l","t","-",
            "a","v","a","t","a","r",".","p","n","g">>)

\* the characters of a user id
UidChars(uid) ==
    CASE uid = "u1" -> <<"u","1">>
      [] uid = "u2" -> <<"u","2">>
      [] uid = "u3" -> <<"u","3">>
      [] OTHER      -> <<"u","9">>

OrElse(v, default) == IF v.t = "none" THEN default ELSE v

user_details(uid) ==
    [ID_Etudiant |-> uid,
     Nom         |-> OrElse(users[uid].name, PyStr(UserPrefix \o UidChars(uid))),
     Bio         |-> OrElse(users[uid].bio, NoBio),
     Skills      |-> users[uid].skills,
     Interests   |-> users[uid].interests,
     Communities |-> users[uid].communities,
     Photo_URL   |-> OrElse(users[uid].photo_url, DefaultAvatar)]

PeersOk(peers) == [status |-> "ok", exc |-> "", peers |-> peers]

\* variant: a record for every other user, whatever k is
nearest_users_all(other_user_ids, other_user_vectors, current_user_vector, k_neighbors) ==
    PeersOk([i \in 1..Len(other_user_ids) |-> user_details(other_user_ids[i])])

\* the try block: fit, query, map the indices to user records; any exception
\* is logged and [] returned
nearest_users(other_user_ids, other_user_vectors, current_user_vector, k_neighbors) ==
    LET found == kneighbors(other_user_vectors,
                            kneighbors_query(current_user_vector), k_neighbors)
    IN  IF found.status = "raise" THEN PeersOk(<<>>)
        ELSE PeersOk([i \in 1..Len(found.indices) |->
                         user_details(other_user_ids[found.indices[i] + 1])])

\* the locals of KNN_similarity before anything is collected
NoFeatures == [all_possible_terms |-> <<>>, user_vectors |-> [u \in Uids |-> <<>>]]

\* steps 1 and 2 of KNN_similarity: the sorted terms of all users, and, when
\* there is a term, the vector of every user of all_users_data
knn_features(all_users_data) ==
    LET all_possible_terms == sorted_terms(all_terms(all_users_data))
    IN  [all_possible_terms |-> all_possible_terms,
         user_vectors |->
            [u \in Uids |->
                IF u \in all_users_data /\ all_possible_terms # <<>>
                THEN vectorize_user_profile(users[u], all_possible_terms).vector
                ELSE <<>>]]

\* what a call leaves: the value returned, with all_possible_terms and
\* user_vectors as they are when it returns
Returning(result, features) ==
    [status |-> result.status, exc |-> result.exc, peers |-> result.peers,
     all_possible_terms |-> features.all_possible_terms,
     user_vectors |-> features.user_vectors]

KNN_similarity(current_user_id, num_recommendations) ==
    LET all_users_data == get_all_users_for_recommendation
        others == other_users_data(all_users_data, current_user_id)
    IN
    IF all_users_data = {} THEN Returning(PeersOk(<<>>), NoFeatures)
    ELSE IF others = {} THEN Returning(PeersOk(<<>>), NoFeatures)
    ELSE IF current_user_id \notin all_users_data THEN Returning(PeersOk(<<>>), NoFeatures)
    ELSE
    LET features == knn_features(all_users_data)
        all_possible_terms == features.all_possible_terms
    IN
    IF all_possible_terms = <<>> THEN Returning(PeersOk(<<>>), features)
    ELSE
    LET user_vectors == features.user_vectors
        current_user_vector == user_vectors[current_user_id]
        other_user_ids == uid_list(others)
        other_user_vectors == [i \in 1..Len(other_user_ids) |->
                                  user_vectors[other_user_ids[i]]]
        k_neighbors == IF Len(other_user_vectors) < num_recommendations
                       THEN Len(other_user_vectors) ELSE num_recommendations
    IN
    IF k_neighbors < 1 \/ Len(other_user_vectors) = 0
    THEN Returning(PeersOk(<<>>), features)
    ELSE
    Returning(nearest_users(other_user_ids, other_user_vectors, current_user_vector,
                            k_neighbors), features)

-----------------------------------------------------------------------------
(* Student dataset: get_user_recommendations of modules/recommender.py     *)

Ai     == <<"a","i">>
Python == <<"p","y","t","h","o","n">>
Web    == <<"w","e","b">>

\* one row of dataset/dataset_etudiants.csv, its list cells as
\* ast.literal_eval reads them; malformed: the columns whose cell is a string
\* that ast.literal_eval rejects
Row(id, nom, communautes, competences, interets, travaux, interactions) ==
    [ID_Etudiant |-> id, Nom |-> nom, Communautes |-> communautes,
     Competences |-> competences, Centres_Interet |-> interets,
     Travaux_Collaboratifs |-> travaux, Nombre_Interactions |-> interactions,
     malformed |-> {}]

RowAnn  == Row(1, "Ann",  <<Ai>>, <<Python>>, <<>>, 3, 40)
RowBob  == Row(2, "Bob",  <<>>, <<Python, Web>>, <<Ai>>, 0, 5)
RowCleo == Row(3, "Cleo", <<>>, <<>>, <<>>, 2, 7)
RowDan  == Row(4, "Dan",  <<>>, <<Web>>, <<>>, 1, 40)

\* the datasets the module can be loaded with: every cell parses and some row
\* has a term, or the import of the module fails at its global preprocessing
DatasetPool ==
    { <<RowAnn>>, <<RowAnn, RowBob>>, <<RowBob, RowCleo, RowAnn>>,
      <<RowAnn, RowDan, RowCleo>> }

\* load_data: the rows of the file as it is now
load_data == dataset

\* preprocess_features: ast.literal_eval on every str cell of the four list
\* columns; a cell it rejects raises (ValueError or SyntaxError)
preprocess_features(rows) ==
    IF \E i \in 1..Len(rows) : rows[i].malformed # {}
    THEN [status |-> "raise", exc |-> "ValueError", rows |-> <<>>]
    ELSE [status |-> "ok", exc |-> "", rows |-> rows]

\* the terms TfidfVectorizer takes from combined_features: words of two or more
\* characters
row_terms(row) ==
    LET texts == row.Communautes \o row.Competences \o row.Centres_Interet
                 \o <<IntStr(row.Travaux_Collaboratifs),
                      IntStr(row.Nombre_Interactions)>>
    IN  { w \in SeqSet(texts) : Len(w) >= 2 }

\* the levels a cosine similarity is told apart by: 0, between 0 and 1, 1
SimLevels == 0..2
SimOne == 2

\* the pair of rows i < j, numbered
PairIndex(i, j) == LET a == Min(i, j) b == IF i < j THEN j ELSE i
                   IN  (((b - 1) * (b - 2)) \div 2) + a

\* compute_similarity_matrix: ValueError (empty vocabulary) when no row has a
\* term; else a symmetric matrix, 1 on the diagonal of a row with terms, 0 for
\* rows sharing no term, lv[pair] > 0 for rows sharing one
compute_similarity_matrix(df, lv) ==
    IF \A i \in 1..Len(df) : row_terms(df[i]) = {}
    THEN [status |-> "raise", exc |-> "ValueError", sim |-> <<>>]
    ELSE [status |-> "ok", exc |-> "",
          sim |-> [i \in 1..Len(df) |-> [j \in 1..Len(df) |->
                     IF row_terms(df[i]) \cap row_terms(df[j]) = {} THEN 0
                     ELSE IF i = j THEN SimOne
                     ELSE lv[PairIndex(i, j)]]]]

\* df.index[df["ID_Étudiant"] == user_id].tolist()
idx_list(df, user_id) ==
    LET Is(i) == IsNumber(user_id) /\ NumTenths(user_id) = 10 * df[i].ID_Etudiant
        all == [i \in 1..Len(df) |-> i]
    IN  SelectSeq(all, Is)

\* sorted(enumerate(row), key=score, reverse=True): stable, highest first
sorted_scores(row) ==
    LET Before(i, j) == row[i] > row[j] \/ (row[i] = row[j] /\ i < j)
        rank(i) == Cardinality({ j \in 1..Len(row) : Before(j, i) }) + 1
    IN  [r \in 1..Len(row) |->
            LET i == CHOOSE i \in 1..Len(row) : rank(i) = r
            IN  [i |-> i, score |-> row[i]]]

\* variant: the row of the first student when the id is not found
get_user_recommendations_first(user_id, top_n, lv) ==
    [status |-> "ok", exc |-> "",
     students |-> IF idx_list(dataset, user_id) = <<>>
                  THEN <<[ID |-> dataset[1].ID_Etudiant, Nom |-> dataset[1].Nom,
                          Similarity |-> 0]>>
                  ELSE <<>>]

StudentsOk(students) == [status |-> "ok", exc |-> "", students |-> students]

\* variant: the rows are those of the module-level df, not of the file
get_user_recommendations_of_module(user_id, top_n, lv) ==
    LET df == module_df
        cosine_sim == compute_similarity_matrix(df, lv)
        found == idx_list(df, user_id)
    IN
    IF cosine_sim.status = "raise"
    THEN [status |-> "raise", exc |-> cosine_sim.exc, students |-> <<>>]
    ELSE IF found = <<>> THEN StudentsOk(<<>>)
    ELSE
    LET idx == found[1]
        NotSelf(sc) == sc.i # idx
        others == SelectSeq(sorted_scores(cosine_sim.sim[idx]), NotSelf)
        sim_scores == SubSeq(others, 1, Min(top_n, Len(others)))
    IN  StudentsOk([n \in 1..Len(sim_scores) |->
            [ID         |-> df[sim_scores[n].i].ID_Etudiant,
             Nom        |-> df[sim_scores[n].i].Nom,
             Similarity |-> sim_scores[n].score]])

get_user_recommendations(user_id, top_n, lv) ==
    LET loaded == preprocess_features(load_data)
        df == loaded.rows
        cosine_sim == compute_similarity_matrix(df, lv)
    IN
    IF loaded.status = "raise"
    THEN [status |-> "raise", exc |-> loaded.exc, students |-> <<>>]
    ELSE IF cosine_sim.status = "raise"
    THEN [status |-> "raise", exc |-> cosine_sim.exc, students |-> <<>>]
    ELSE
    LET found == idx_list(df, user_id)
    IN
    IF found = <<>> THEN StudentsOk(<<>>)
    ELSE
    LET idx == found[1]
        NotSelf(sc) == sc.i # idx
        others == SelectSeq(sorted_scores(cosine_sim.sim[idx]), NotSelf)
        sim_scores == SubSeq(others, 1, Min(top_n, Len(others)))
    IN  StudentsOk([n \in 1..Len(sim_scores) |->
            [ID         |-> df[sim_scores[n].i].ID_Etudiant,
             Nom        |-> df[sim_scores[n].i].Nom,
             Similarity |-> sim_scores[n].score]])

-----------------------------------------------------------------------------
(* Peer requests                                                           *)

DefaultK    == 5
DefaultTopN == 6

\* the ids a request may name: the users of the store and one unknown to it
TargetIds == Uids \cup {"u9"}
KPool == {0, 1, DefaultK}

CommunitiesPool == { <<>>, <<PyStr(<<"A","I">>), PyList>> }

\* the student ids a lookup may name
StudentIdPool == { PyInt(1), PyInt(2), PyInt(9), PyStr(<<"1">>) }
TopNPool == {1, DefaultTopN}

call_KNN_similarity(uid, k) ==
    /\ call' = [NoCall EXCEPT !.op = "knn", !.uid = uid, !.k = k]
    /\ LET r == KNN_similarity(uid, k)
       IN  ret' = [NoRet EXCEPT !.status = r.status, !.exc = r.exc,
                                !.peers = r.peers,
                                !.terms = r.all_possible_terms,
                                !.vectors = r.user_vectors]
    /\ UNCHANGED <<rt_db, users, contents, dataset, module_state, vec_profile, vec_terms,
                   vec_args0, vec_out, vec_prev, vec_calls>>

call_get_user_recommendations(user_id, top_n, lv) ==
    /\ call' = [NoCall EXCEPT !.op = "students", !.id = user_id, !.k = top_n]
    /\ LET r == get_user_recommendations(user_id, top_n, lv)
       IN  ret' = [NoRet EXCEPT !.status = r.status, !.exc = r.exc,
                                !.students = r.students]
    /\ UNCHANGED <<rt_db, users, contents, dataset, module_state, vec_profile, vec_terms,
                   vec_args0, vec_out, vec_prev, vec_calls>>

\* the module's database handle is obtained, or not, when it is imported
InitPeers ==
    /\ rt_db \in BOOLEAN
    /\ users = [u \in Uids |-> NoProfile]
    /\ contents = NoContents
    /\ dataset = NoDataset
    /\ module_df = NoDataset
    /\ module_cosine_sim = NoDataset
    /\ add_user_pc = NoAdd
    /\ call = NoCall
    /\ ret = NoRet
    /\ vec_profile = NoProfile
    /\ vec_terms = <<>>
    /\ vec_args0 = [profile |-> NoProfile, terms |-> <<>>]
    /\ vec_out = <<>>
    /\ vec_prev = <<>>
    /\ vec_calls = 0

NextPeers ==
    \/ \E u \in Uids : profile_create(u)
    \/ \E u \in Uids, sk \in SkillsPool : profile_write(u, "skills", sk)
    \/ \E u \in {"u1", "u2"}, it \in InterestsPool :
           profile_write(u, "interests", it)
    \/ \E cm \in CommunitiesPool : profile_write("u1", "communities", cm)
    \/ \E uid \in TargetIds, k \in KPool : call_KNN_similarity(uid, k)

SpecPeers == InitPeers /\ [][NextPeers]_vars

InitLookup ==
    /\ rt_db \in BOOLEAN
    /\ users = [u \in Uids |-> NoProfile]
    /\ contents = NoContents
    /\ dataset \in DatasetPool
    /\ module_df = dataset
    /\ module_cosine_sim = dataset
    /\ add_user_pc = NoAdd
    /\ call = NoCall
    /\ ret = NoRet
    /\ vec_profile = NoProfile
    /\ vec_terms = <<>>
    /\ vec_args0 = [profile |-> NoProfile, terms |-> <<>>]
    /\ vec_out = <<>>
    /\ vec_prev = <<>>
    /\ vec_calls = 0

NextLookup ==
    \/ \E u \in {"u1", "u2"} : profile_create(u)
    \/ \E u \in {"u1", "u2"}, sk \in SkillsPool : profile_write(u, "skills", sk)
    \/ \E uid \in {"u1", "u2", "u9"}, k \in {1, DefaultK} :
           call_KNN_similarity(uid, k)
    \/ \E user_id \in StudentIdPool, top_n \in TopNPool,
          lv \in [1..3 -> SimLevels \ {0}] :
           call_get_user_recommendations(user_id, top_n, lv)

SpecLookup == InitLookup /\ [][NextLookup]_vars

-----------------------------------------------------------------------------
(* Vectorizer requests                                                     *)

\* vocabularies: sorted and without duplicates, as KNN_similarity builds them;
\* they may lack tags of the profile or hold terms no profile has
VocabularyPool ==
    { <<>>,
      sorted_terms({Rust, Food, <<"5">>}),
      sorted_terms({Rust, Food, Systems, <<"5">>, <<"7">>, Ai}),
      sorted_terms({Food, Web, <<"7">>}),
      sorted_terms({<<"R","u","s","t">>, Rust, <<"2",".","5">>}) }

VecSkillsPool ==
    SkillsPool \cup { <<PyStr(Rust), PyFloat(25), PyStr(<<"R","u","s","t">>), PyNone>> }

VecProfilePool ==
    { [NoProfile EXCEPT !.stored = TRUE, !.skills = sk, !.interests = it,
                        !.communities = cm] :
        sk \in VecSkillsPool, it \in InterestsPool, cm \in CommunitiesPool }

call_vectorize_user_profile ==
    /\ vec_calls < MaxVecCalls
    /\ LET r == vectorize_user_profile(vec_profile, vec_terms)
       IN  /\ vec_out' = r.vector
           /\ vec_profile' = r.user_profile
           /\ vec_terms' = r.all_possible_terms
    /\ vec_prev' = vec_out
    /\ vec_calls' = vec_calls + 1
    /\ UNCHANGED <<rt_db, users, contents, dataset, module_state, call, ret, vec_args0>>

InitVectorize ==
    /\ rt_db = TRUE
    /\ users = [u \in Uids |-> NoProfile]
    /\ contents = NoContents
    /\ dataset = NoDataset
    /\ module_df = NoDataset
    /\ module_cosine_sim = NoDataset
    /\ add_user_pc = NoAdd
    /\ call = NoCall
    /\ ret = NoRet
    /\ vec_profile \in VecProfilePool
    /\ vec_terms \in VocabularyPool
    /\ vec_args0 = [profile |-> vec_profile, terms |-> vec_terms]
    /\ vec_out = <<>>
    /\ vec_prev = <<>>
    /\ vec_calls = 0

NextVectorize == call_vectorize_user_profile

SpecVectorize == InitVectorize /\ [][NextVectorize]_vars

-----------------------------------------------------------------------------
(* Ratings and evaluation: modules/evaluation.py                           *)

\* a rating is held in 200ths: 600 is 3.0, 1100 is 5.5
RatingUnit == 200

\* variant: the score is clamped to 5 after the multiplication
normalized_score_clamped(num_interactions, len) ==
    Min((Min(num_interactions * 10, 1000) * (10 + len)) \div 10, 1000)

\* min((num_interactions / 100.0) * 5, 5) * (1 + len(competences)/10)
normalized_score(num_interactions, len) ==
    (Min(num_interactions * 10, 1000) * (10 + len)) \div 10

\* the tuples appended for one row: (str(student_id), competence, score)
row_ratings(row) ==
    [j \in 1..Len(row.Competences) |->
        [user   |-> IntStr(row.ID_Etudiant),
         item   |-> row.Competences[j],
         rating |-> normalized_score(row.Nombre_Interactions,
                                     Len(row.Competences))]]

RECURSIVE ratings_from(_, _)
ratings_from(rows, i) ==
    IF i > Len(rows) THEN <<>>
    ELSE row_ratings(rows[i]) \o ratings_from(rows, i + 1)

ParseError == "Error parsing 'Competences' column"

\* variant: a row whose cell does not parse is skipped, the others are kept
create_ratings_df_skipping(rows) ==
    LET Parses(r) == "Competences" \notin r.malformed
    IN  [columns |-> TRUE, logged |-> "",
         ratings |-> ratings_from(SelectSeq(rows, Parses), 1)]

\* create_ratings_df: the frame returned, with its three columns or (after a
\* parse error) with none, and what was printed
create_ratings_df(rows) ==
    IF \E i \in 1..Len(rows) : "Competences" \in rows[i].malformed
    THEN [columns |-> FALSE, logged |-> ParseError, ratings |-> <<>>]
    ELSE [columns |-> TRUE, logged |-> "", ratings |-> ratings_from(rows, 1)]

CvFolds == 5

\* cross_validate(algo, data, cv=5): ValueError when there are fewer ratings
\* than folds; else what the library does, which may be to raise
cross_validate(ratings, outcome) ==
    IF Len(ratings) < CvFolds \/ outcome = "raise" THEN "raise" ELSE "ok"

ErrorReport(msg) == [NoReport EXCEPT !.kind = "error", !.error = msg]
NoValidRatings == "No valid ratings data available"

\* variant: the body without its try
evaluate_surprise_models_unguarded(cv_knn, cv_svd) ==
    LET ratings_df == create_ratings_df(load_data)
    IN  IF ratings_df.ratings = <<>>
        THEN [status |-> "ok", exc |-> "", report |-> ErrorReport(NoValidRatings)]
        ELSE IF \/ cross_validate(ratings_df.ratings, cv_knn) = "raise"
                \/ cross_validate(ratings_df.ratings, cv_svd) = "raise"
        THEN [status |-> "raise", exc |-> "ValueError", report |-> NoReport]
        ELSE [status |-> "ok", exc |-> "",
              report |-> [NoReport EXCEPT !.kind = "metrics",
                              !.KNN = <<"knn_rmse", "knn_mae">>,
                              !.SVD = <<"svd_rmse", "svd_mae">>]]

\* evaluate_surprise_models: the mean RMSE and MAE of the two models (held as
\* names, their values are the library's), or an error object
evaluate_surprise_models(cv_knn, cv_svd) ==
    LET ratings_df == create_ratings_df(load_data)
    IN  IF ratings_df.ratings = <<>>
        THEN [status |-> "ok", exc |-> "", report |-> ErrorReport(NoValidRatings)]
        ELSE IF \/ cross_validate(ratings_df.ratings, cv_knn) = "raise"
                \/ cross_validate(ratings_df.ratings, cv_svd) = "raise"
        THEN [status |-> "ok", exc |-> "", report |-> ErrorReport("ValueError")]
        ELSE [status |-> "ok", exc |-> "",
              report |-> [NoReport EXCEPT !.kind = "metrics",
                              !.KNN = <<"knn_rmse", "knn_mae">>,
                              !.SVD = <<"svd_rmse", "svd_mae">>]]

-----------------------------------------------------------------------------
(* Collaborative filtering wrappers and module state: modules/recommender.py *)

\* the values of a field of the ratings, each once, in order of first
\* appearance (the inner ids of the trainset)
RECURSIVE first_seen(_, _, _)
first_seen(seq, i, acc) ==
    IF i > Len(seq) THEN acc
    ELSE first_seen(seq, i + 1,
                    IF InSeq(seq[i], acc) THEN acc ELSE Append(acc, seq[i]))

\* build_anti_testset: every (user, item) of the trainset without a rating
anti_testset(ratings) ==
    LET us == first_seen([j \in 1..Len(ratings) |-> ratings[j].user], 1, <<>>)
        is == first_seen([j \in 1..Len(ratings) |-> ratings[j].item], 1, <<>>)
        Rated(u, i) == \E j \in 1..Len(ratings) :
                           ratings[j].user = u /\ ratings[j].item = i
        RECURSIVE pairs(_, _)
        pairs(a, b) ==
            IF a > Len(us) THEN <<>>
            ELSE IF b > Len(is) THEN pairs(a + 1, 1)
            ELSE (IF Rated(us[a], is[b]) THEN <<>>
                  ELSE <<[uid |-> us[a], iid |-> is[b]]>>) \o pairs(a, b + 1)
    IN  pairs(1, 1)

\* the estimates a fitted model may give the pairs: rising or falling along
\* the test set, or all equal
EstShapes == {"up", "down", "flat"}

\* model.test(testset): one prediction per pair
model_test(testset, shape) ==
    [n \in 1..Len(testset) |->
        [uid |-> testset[n].uid, iid |-> testset[n].iid,
         est |-> CASE shape = "up"   -> n
                   [] shape = "down" -> Len(testset) + 1 - n
                   [] OTHER          -> 1]]

\* train_knn_model / train_svd_model followed by build_anti_testset and
\* model.test: KeyError when the ratings frame has no columns, and whatever
\* the library raises while fitting
train_and_predict(lib) ==
    LET ratings_df == create_ratings_df(load_data)
    IN  IF ~ratings_df.columns
        THEN [status |-> "raise", exc |-> "KeyError", predictions |-> <<>>]
        ELSE IF lib = "raise"
        THEN [status |-> "raise", exc |-> "Exception", predictions |-> <<>>]
        ELSE [status |-> "ok", exc |-> "",
              predictions |-> model_test(anti_testset(ratings_df.ratings), lib)]

\* [p for p in predictions if p.uid == str(user_id)]
user_predictions(predictions, user_id) ==
    LET Mine(p) == p.uid = Str(user_id) IN SelectSeq(predictions, Mine)

\* sorted(..., key=lambda x: x.est, reverse=True): stable, highest first
sorted_by_est(preds) ==
    LET Before(i, j) == preds[i].est > preds[j].est
                        \/ (preds[i].est = preds[j].est /\ i < j)
        rank(i) == Cardinality({ j \in 1..Len(preds) : Before(j, i) }) + 1
    IN  [r \in 1..Len(preds) |->
            preds[CHOOSE i \in 1..Len(preds) : rank(i) = r]]

RecsOk(recs) == [status |-> "ok", exc |-> "", recs |-> recs]

\* get_knn_recommendations: user_skills holds the item ids (str), and the sort
\* key reads .est of each: AttributeError as soon as there is one, so the loop
\* over the students holding a skill runs over no skill
get_knn_recommendations(user_id, top_n, lib) ==
    LET trained == train_and_predict(lib)
        user_skills == [n \in 1..Len(user_predictions(trained.predictions, user_id)) |->
                           user_predictions(trained.predictions, user_id)[n].iid]
    IN  IF trained.status = "raise" THEN RecsOk(<<>>)
        ELSE IF user_skills # <<>> THEN RecsOk(<<>>)
        ELSE IF preprocess_features(load_data).status = "raise" THEN RecsOk(<<>>)
        ELSE RecsOk(<<>>)

\* int(s) of a str: its number, or -1 for ValueError
int_of(s) ==
    LET RECURSIVE num(_)
        num(i) == IF i = 0 THEN 0
                  ELSE 10 * num(i - 1)
                       + (CHOOSE d \in 0..9 : Digits[d + 1] = s[i])
    IN  IF s # <<>> /\ \A i \in 1..Len(s) : InSeq(s[i], Digits)
        THEN num(Len(s)) ELSE -1

\* df[df["ID_Étudiant"] == int(p.iid)]["Nom"].values[0] on the module-level
\* df: ValueError of int(), IndexError when no row has that id
nom_of_item(iid) ==
    LET id == int_of(iid)
        Is(r) == r.ID_Etudiant = id
        rows == SelectSeq(module_df, Is)
    IN  IF id < 0 THEN [status |-> "raise", exc |-> "ValueError", Nom |-> ""]
        ELSE IF rows = <<>>
        THEN [status |-> "raise", exc |-> "IndexError", Nom |-> ""]
        ELSE [status |-> "ok", exc |-> "", Nom |-> rows[1].Nom]

\* variant: the body without its try
get_svd_recommendations_unguarded(user_id, top_n, lib) ==
    LET trained == train_and_predict(lib)
        user_preds == sorted_by_est(user_predictions(trained.predictions, user_id))
        top == SubSeq(user_preds, 1, Min(top_n, Len(user_preds)))
    IN  IF trained.status = "raise"
        THEN [status |-> "raise", exc |-> trained.exc, recs |-> <<>>]
        ELSE IF \E n \in 1..Len(top) : nom_of_item(top[n].iid).status = "raise"
        THEN [status |-> "raise", exc |-> "ValueError", recs |-> <<>>]
        ELSE RecsOk([n \in 1..Len(top) |->
                 [Nom |-> nom_of_item(top[n].iid).Nom, Score |-> top[n].est]])

get_svd_recommendations(user_id, top_n, lib) ==
    LET trained == train_and_predict(lib)
        user_preds == sorted_by_est(user_predictions(trained.predictions, user_id))
        top == SubSeq(user_preds, 1, Min(top_n, Len(user_preds)))
    IN  IF trained.status = "raise" THEN RecsOk(<<>>)
        ELSE IF \E n \in 1..Len(top) : nom_of_item(top[n].iid).status = "raise"
        THEN RecsOk(<<>>)
        ELSE RecsOk([n \in 1..Len(top) |->
                 [Nom |-> nom_of_item(top[n].iid).Nom, Score |-> top[n].est]])

GlobalTop == 6

\* the orders sort_values("Nombre_Interactions", ascending=False) may give:
\* descending, rows with equal counts in either order (the sort is not stable)
descending_orders(rows) ==
    { o \in [1..Len(rows) -> 1..Len(rows)] :
        /\ \A i, j \in 1..Len(rows) : i # j => o[i] # o[j]
        /\ \A i \in 1..(Len(rows) - 1) :
               rows[o[i]].Nombre_Interactions >= rows[o[i + 1]].Nombre_Interactions }

\* get_global_recommendations on a frame: the first six rows of one order
global_recommendations(rows, o) ==
    [n \in 1..Min(GlobalTop, Len(rows)) |->
        [ID  |-> rows[o[n]].ID_Etudiant,
         Nom |-> rows[o[n]].Nom,
         Nombre_Interactions |-> rows[o[n]].Nombre_Interactions]]

\* get_global_recommendations: it reads the module-level df
get_global_recommendations(o) == RecsOk(global_recommendations(module_df, o))

\* variant: the new id is the number of rows plus one
new_id_by_count(global_df) == Len(global_df) + 1

\* new_id = 1 if global_df.empty else global_df["ID_Étudiant"].max() + 1
new_id(global_df) ==
    IF global_df = <<>> THEN 1
    ELSE (CHOOSE m \in { global_df[i].ID_Etudiant : i \in 1..Len(global_df) } :
              \A i \in 1..Len(global_df) : global_df[i].ID_Etudiant <= m) + 1

-----------------------------------------------------------------------------
(* Dataset requests                                                        *)

CfTopN == 5

RowHal == Row(5, "Hal", <<>>, <<Python>>, <<>>, 0, 100)

\* the files the module is first loaded with
InitialFiles == { <<RowAnn, RowBob>>, <<RowHal>>, <<RowBob, RowCleo, RowAnn>> }

\* the new_user records passed to add_user_to_dataset: the skills a list, or
\* a string that is no list literal
NewUserPool ==
    { Row(0, "Eve", <<Ai>>, <<Python, Web, <<"2">>>>, <<>>, 1, 150),
      Row(0, "Gus", <<>>, <<Ai, Web>>, <<>>, 0, 50),
      [Row(0, "Fay", <<>>, <<>>, <<>>, 0, 50) EXCEPT !.malformed = {"Competences"}] }

CfUserPool == { PyInt(1), PyInt(2), PyInt(9) }
CfTopNPool == {1, CfTopN}
LibPool == EstShapes \cup {"raise"}

\* add_user_to_dataset, lines 108-121: the file is read, the new row gets
\* its id, is appended and the file replaced
add_user_replace(new_user) ==
    /\ add_user_pc.at = "idle"
    /\ Len(dataset) < MaxRows
    /\ LET global_df == load_data
           updated_df == Append(global_df,
                                [new_user EXCEPT !.ID_Etudiant = new_id(global_df)])
       IN  /\ dataset' = updated_df
           /\ add_user_pc' = [at |-> "replaced", updated_df |-> updated_df]
    /\ call' = [NoCall EXCEPT !.op = "add_user"]
    /\ ret' = NoRet
    /\ UNCHANGED <<rt_db, users, contents, module_df, module_cosine_sim,
                   vec_profile, vec_terms, vec_args0, vec_out, vec_prev,
                   vec_calls>>

\* add_user_to_dataset, lines 124-130: the module-level df and cosine_sim are
\* assigned one after the other; an exception is printed and raised again
add_user_update ==
    /\ add_user_pc.at = "replaced"
    /\ LET pre == preprocess_features(add_user_pc.updated_df)
           sim == compute_similarity_matrix(pre.rows,
                      [n \in 1..(MaxRows * MaxRows) |-> 1])
       IN  /\ module_df' = IF pre.status = "ok" THEN pre.rows ELSE module_df
           /\ module_cosine_sim' =
                  IF pre.status = "ok" /\ sim.status = "ok"
                  THEN pre.rows ELSE module_cosine_sim
           /\ ret' = [NoRet EXCEPT
                  !.status = IF pre.status = "ok" /\ sim.status = "ok"
                             THEN "ok" ELSE "raise",
                  !.exc = IF pre.status = "raise" THEN pre.exc ELSE sim.exc]
    /\ add_user_pc' = NoAdd
    /\ call' = [NoCall EXCEPT !.op = "add_user"]
    /\ UNCHANGED <<rt_db, users, contents, dataset, vec_profile, vec_terms,
                   vec_args0, vec_out, vec_prev, vec_calls>>

call_create_ratings_df ==
    /\ call' = [NoCall EXCEPT !.op = "ratings"]
    /\ LET r == create_ratings_df(load_data)
       IN  ret' = [NoRet EXCEPT !.status = "ok", !.ratings = r.ratings,
                                !.logged = r.logged]
    /\ UNCHANGED <<rt_db, users, contents, dataset, module_state, vec_profile,
                   vec_terms, vec_args0, vec_out, vec_prev, vec_calls>>

call_evaluate_surprise_models(cv_knn, cv_svd) ==
    /\ call' = [NoCall EXCEPT !.op = "evaluate", !.lib = cv_knn, !.lib2 = cv_svd]
    /\ LET r == evaluate_surprise_models(cv_knn, cv_svd)
       IN  ret' = [NoRet EXCEPT !.status = r.status, !.exc = r.exc,
                                !.report = r.report]
    /\ UNCHANGED <<rt_db, users, contents, dataset, module_state, vec_profile,
                   vec_terms, vec_args0, vec_out, vec_prev, vec_calls>>

call_get_knn_recommendations(user_id, top_n, lib) ==
    /\ call' = [NoCall EXCEPT !.op = "cf_knn", !.id = user_id, !.k = top_n,
                              !.lib = lib]
    /\ ret' = RetOf(get_knn_recommendations(user_id, top_n, lib))
    /\ UNCHANGED <<rt_db, users, contents, dataset, module_state, vec_profile,
                   vec_terms, vec_args0, vec_out, vec_prev, vec_calls>>

call_get_svd_recommendations(user_id, top_n, lib) ==
    /\ call' = [NoCall EXCEPT !.op = "cf_svd", !.id = user_id, !.k = top_n,
                              !.lib = lib]
    /\ ret' = RetOf(get_svd_recommendations(user_id, top_n, lib))
    /\ UNCHANGED <<rt_db, users, contents, dataset, module_state, vec_profile,
                   vec_terms, vec_args0, vec_out, vec_prev, vec_calls>>

call_get_global_recommendations(o) ==
    /\ call' = [NoCall EXCEPT !.op = "global"]
    /\ ret' = RetOf(get_global_recommendations(o))
    /\ UNCHANGED <<rt_db, users, contents, dataset, module_state, vec_profile,
                   vec_terms, vec_args0, vec_out, vec_prev, vec_calls>>

\* recommender.py is imported: lines 57-59 build the module-level df and
\* cosine_sim from the file
Init ==
    /\ rt_db = TRUE
    /\ users = [u \in Uids |-> NoProfile]
    /\ contents = NoContents
    /\ dataset \in InitialFiles
    /\ module_df = preprocess_features(dataset).rows
    /\ module_cosine_sim = module_df
    /\ add_user_pc = NoAdd
    /\ call = NoCall
    /\ ret = NoRet
    /\ vec_profile = NoProfile
    /\ vec_terms = <<>>
    /\ vec_args0 = [profile |-> NoProfile, terms |-> <<>>]
    /\ vec_out = <<>>
    /\ vec_prev = <<>>
    /\ vec_calls = 0

Next ==
    \/ \E new_user \in NewUserPool : add_user_replace(new_user)
    \/ add_user_update
    \/ call_create_ratings_df
    \/ \E cv_knn, cv_svd \in {"ok", "raise"} :
           call_evaluate_surprise_models(cv_knn, cv_svd)
    \/ \E user_id \in CfUserPool, top_n \in CfTopNPool, lib \in LibPool :
           call_get_knn_recommendations(user_id, top_n, lib)
    \/ \E user_id \in CfUserPool, top_n \in CfTopNPool, lib \in LibPool :
           call_get_svd_recommendations(user_id, top_n, lib)
    \/ \E o \in descending_orders(module_df) : call_get_global_recommendations(o)

Spec == Init /\ [][Next]_vars

-----------------------------------------------------------------------------
(* Similar-student requests while the dataset file is being extended       *)

\* the similarities TF-IDF may give the pairs of rows that share a term
LevelPool ==
    LET pairs == 1..(MaxRows * MaxRows)
    IN  { [p \in pairs |-> 1], [p \in pairs |-> 2],
          [p \in pairs |-> 1 + (p % 2)], [p \in pairs |-> 2 - (p % 2)] }

InitStudents == Init

NextStudents ==
    \/ \E new_user \in NewUserPool : add_user_replace(new_user)
    \/ add_user_update
    \/ \E user_id \in StudentIdPool, top_n \in TopNPool, lv \in LevelPool :
           call_get_user_recommendations(user_id, top_n, lv)

SpecStudents == InitStudents /\ [][NextStudents]_vars

-----------------------------------------------------------------------------
(* Page handlers: home and profile_page of app.py, profile_page of         *)
(* app_incomplet.py. A handler reads the store and answers with a page.    *)

PerPage == 6

\* templates.TemplateResponse(template, context)
Rendered(template, recommendations, general_courses, interacted_courses, error) ==
    [NoRet EXCEPT !.status = "ok",
                  !.page = [template           |-> template,
                            recommendations    |-> recommendations,
                            general_courses    |-> general_courses,
                            interacted_courses |-> interacted_courses,
                            error              |-> error]]

\* an exception that leaves a handler is answered with error.html, status 500
generic_exception_handler(exc) ==
    [NoRet EXCEPT !.status = "raise", !.exc = exc,
                  !.page = [NoPage EXCEPT !.template = "error.html",
                                          !.error = "An unexpected error occurred."]]

\* sorted(all_contents_list, key=lambda item: item.get("Rating", 0), reverse=True)
\* over the values of the node: AttributeError on an entry that is not a dict
sorted_contents_list(raw) ==
    LET n     == Len(raw.entries)
        keyed == [i \in 1..n |->
                    [Rating |-> Get(raw.entries[i].item, "Rating", PyInt(0)),
                     item   |-> raw.entries[i].item]]
    IN  IF \E i \in 1..n : ~raw.entries[i].isdict THEN Raise("AttributeError")
        ELSE sorted_recommendations(keyed)

\* the loop of home over the first page of the sorted list (start_index 0):
\* course_with_id is the copy of course_data (item) with 'id' set to the index
\* in the sorted list and with its EmbedLink; on an exception general_courses
\* keeps the courses appended so far
RECURSIVE general_courses_loop(_, _, _)
general_courses_loop(paginated_contents, i, general_courses) ==
    IF i > Len(paginated_contents)
    THEN [status |-> "ok", exc |-> "", recs |-> general_courses]
    ELSE
    LET course_data == paginated_contents[i].item
        link        == Get(course_data, "Link", PyNone)
        youtube_id  == extract_youtube_id(link)
    IN  IF ~Falsy(link) /\ link.t # "str"
        THEN [status |-> "raise", exc |-> "TypeError", recs |-> general_courses]
        ELSE general_courses_loop(paginated_contents, i + 1,
                 Append(general_courses,
                        [id        |-> PyInt(i - 1),
                         item      |-> course_data,
                         Title     |-> Get(course_data, "Title", PyNone),
                         EmbedLink |-> IF Falsy(youtube_id) THEN PyNone
                                       ELSE PyStr(EmbedPrefix \o youtube_id.s)]))

\* home of app.py for page 1; user "" is a visitor who is not signed in, fetch
\* names the read of the store that raises ("" when none does)
home(user, fetch) ==
    IF ~rt_db THEN Rendered("index.html", <<>>, <<>>, <<>>, "")
    ELSE IF fetch = "contents" THEN Rendered("index.html", <<>>, <<>>, <<>>, "")
    ELSE
    LET sorted == sorted_contents_list(contents)
    IN  IF sorted.status = "raise" THEN Rendered("index.html", <<>>, <<>>, <<>>, "")
        ELSE
        LET paginated_contents ==
                SubSeq(sorted.recs, 1, Min(Len(sorted.recs), PerPage))
            looped == general_courses_loop(paginated_contents, 1, <<>>)
        IN  IF looped.status = "raise" \/ user = "" \/ fetch = "profile"
            THEN Rendered("index.html", <<>>, looped.recs, <<>>, "")
            ELSE LET r == generate_recommendations(users[user], contents)
                 IN  Rendered("index.html",
                              IF r.status = "ok" THEN r.recs ELSE <<>>,
                              looped.recs, <<>>, "")

\* the loop of profile_page over Derniers_Cours_Interagis: int(cid) raises
\* TypeError on None, which no except clause of the loop takes; ValueError
\* and IndexError are taken by the loop
RECURSIVE interacted_courses_loop(_, _, _, _)
interacted_courses_loop(ids, i, contents_values, details) ==
    IF i > Len(ids) THEN [status |-> "ok", exc |-> "", recs |-> details]
    ELSE
    LET cid == ids[i]
        pos == CASE cid.t = "str"   -> int_of(cid.s)
                 [] cid.t = "int"   -> cid.n
                 [] cid.t = "float" -> cid.n \div 10
                 [] OTHER           -> -1
    IN  IF cid.t \notin {"str", "int", "float"}
        THEN [status |-> "raise", exc |-> "TypeError", recs |-> details]
        ELSE IF pos < 0 \/ pos >= Len(contents_values)
        THEN interacted_courses_loop(ids, i + 1, contents_values, details)
        ELSE IF ~contents_values[pos + 1].isdict
        THEN interacted_courses_loop(ids, i + 1, contents_values, details)
        ELSE interacted_courses_loop(ids, i + 1, contents_values,
                 Append(details,
                        [ID_Etudiant |-> cid,
                         Title |-> Get(contents_values[pos + 1].item, "Title",
                                       PyStr(<<"C","o","u","r","s","e"," ">> \o Str(cid))),
                         Link  |-> Get(contents_values[pos + 1].item, "Link", NoLink)]))

\* profile_page of app.py
profile_page(user, fetch) ==
    IF ~rt_db \/ fetch # "" THEN Rendered("profile.html", <<>>, <<>>, <<>>, "")
    ELSE
    LET profile_data      == users[user]
        contents_values == contents.entries
        ids               == profile_data.interacted
        details == IF ids # <<>> /\ contents_values # <<>>
                   THEN interacted_courses_loop(ids, 1, contents_values, <<>>)
                   ELSE [status |-> "ok", exc |-> "", recs |-> <<>>]
    IN  IF details.status = "raise"
        THEN Rendered("profile.html", <<>>, <<>>, details.recs, "")
        ELSE LET r == generate_recommendations(profile_data, contents)
             IN  Rendered("profile.html",
                          IF r.status = "ok" THEN r.recs ELSE <<>>,
                          <<>>, details.recs, "")

\* profile_page of app_incomplet.py, as its text reads. The import of line 21
\* fails (modules/recommendation_methods.py has no extract_youtube_id), so
\* USER_RECOMMENDATION_METHODS is {} and get_all_contents_for_recommendation
\* gives None. selected_method is bound at line 638, inside the try under
\* `if rt_db:`, and read at line 665 by the TemplateResponse after it.
profile_page_incomplet(user, user_rec_method, fetch) ==
    LET selected_method_bound == rt_db /\ fetch = ""
    IN  IF ~selected_method_bound
        THEN generic_exception_handler("UnboundLocalError")
        ELSE Rendered("profile.html", <<>>, <<>>, <<>>, "")

\* a content item whose Title is a number
ItemBadTitle ==
    [has |-> {"Title", "Rating"},
     f   |-> [NoFields EXCEPT !["Title"] = PyInt(2024), !["Rating"] = PyInt(3)]]

PageEntryPool ==
    { [isdict |-> TRUE, item |-> it] : it \in {ItemRust, ItemVideo, ItemBadTitle} }
    \cup { [isdict |-> FALSE, item |-> NoItem] }

PageSkillsPool == { <<>>, <<PyStr(<<"R","u","s","t">>), PyInt(5)>> }
PageInteractedPool ==
    { <<>>, <<PyInt(0)>>, <<PyStr(<<"1">>), PyStr(<<"c","1">>), PyNone>> }
PageFetchPool == {"", "contents", "profile"}
RecMethodPool == {"knn", "LLM"}

call_home(user, fetch) ==
    /\ fetch # "" => rt_db
    /\ fetch = "profile" => user # ""
    /\ call' = [NoCall EXCEPT !.op = "home", !.uid = user, !.fetch = fetch]
    /\ ret' = home(user, fetch)
    /\ UNCHANGED <<rt_db, users, contents, dataset, module_state, vec_profile, vec_terms,
                   vec_args0, vec_out, vec_prev, vec_calls>>

call_profile_page(user, fetch) ==
    /\ fetch # "" => rt_db
    /\ call' = [NoCall EXCEPT !.op = "profile_page", !.uid = user, !.fetch = fetch]
    /\ ret' = profile_page(user, fetch)
    /\ UNCHANGED <<rt_db, users, contents, dataset, module_state, vec_profile, vec_terms,
                   vec_args0, vec_out, vec_prev, vec_calls>>

call_profile_page_incomplet(user, user_rec_method, fetch) ==
    /\ fetch # "" => rt_db
    /\ call' = [NoCall EXCEPT !.op = "profile_page_incomplet", !.uid = user,
                              !.lib = user_rec_method, !.fetch = fetch]
    /\ ret' = profile_page_incomplet(user, user_rec_method, fetch)
    /\ UNCHANGED <<rt_db, users, contents, dataset, module_state, vec_profile, vec_terms,
                   vec_args0, vec_out, vec_prev, vec_calls>>

InitPages ==
    /\ rt_db \in BOOLEAN
    /\ users = [u \in Uids |-> NoProfile]
    /\ contents = NoContents
    /\ dataset = NoDataset
    /\ module_df = NoDataset
    /\ module_cosine_sim = NoDataset
    /\ add_user_pc = NoAdd
    /\ call = NoCall
    /\ ret = NoRet
    /\ vec_profile = NoProfile
    /\ vec_terms = <<>>
    /\ vec_args0 = [profile |-> NoProfile, terms |-> <<>>]
    /\ vec_out = <<>>
    /\ vec_prev = <<>>
    /\ vec_calls = 0

NextPages ==
    \/ \E shape \in {"list", "dict"}, e \in PageEntryPool : contents_append(shape, e)
    \/ contents_scalar
    \/ profile_create("u1")
    \/ \E sk \in PageSkillsPool : profile_write("u1", "skills", sk)
    \/ \E ia \in PageInteractedPool : profile_write("u1", "interacted", ia)
    \/ \E user \in {"", "u1"}, fetch \in PageFetchPool : call_home(user, fetch)
    \/ \E fetch \in PageFetchPool : call_profile_page("u1", fetch)
    \/ \E m \in RecMethodPool, fetch \in {"", "profile"} :
           call_profile_page_incomplet("u1", m, fetch)
    \/ call_generate_recommendations("u1")

SpecPages == InitPages /\ [][NextPages]_vars

-----------------------------------------------------------------------------
(* LLM path: reco_llm of modules/gemini_api.py, process_test_reco of       *)
(* app.py, llm_recomand of modules/recommendation_methods.py               *)
(*                                                                         *)
(* The text of the remote service is a sequence of lines; a line is a      *)
(* code-fence marker or a text, and a text is a JSON document or prose.    *)
(* A JSON object is [key, val, items]: its top-level key, whether the      *)
(* value under it is a list, and the items of that list.                   *)

JsonKeys == {"Title", "ID_Etudiant", "Nom"}
NoJsonFields == [k \in JsonKeys |-> PyNone]

NoJson == [kind |-> "none", key |-> "", val |-> "", items |-> <<>>]
JsonObject(key, val, items) ==
    [kind |-> "dict", key |-> key, val |-> val, items |-> items]
JsonArray == [NoJson EXCEPT !.kind = "list"]
JsonProse == [NoJson EXCEPT !.kind = "prose"]

\* the two markers of a code fence: three backquotes followed by the word
\* json, and three backquotes alone
JsonFence == "fence json"
BareFence == "fence"

FenceLine(marker) == [fence |-> marker, json |-> NoJson]
TextLine(doc)     == [fence |-> "", json |-> doc]

\* re.sub(r'^[fence]json\s*|\s*[fence]$', '', text, flags=re.MULTILINE) and
\* .strip(), [fence] being the three backquotes of a code fence:
\* every line that is a marker goes, with or without the word json
cleaned_json(text) ==
    LET IsText(line) == line.fence = ""
    IN  SelectSeq(text, IsText)

\* response_text[7:-3].strip() when the text starts with [fence]json and ends
\* with [fence], the text unchanged otherwise
json_string(response_text) ==
    IF /\ Len(response_text) >= 2
       /\ response_text[1].fence = JsonFence
       /\ response_text[Len(response_text)].fence = BareFence
    THEN SubSeq(response_text, 2, Len(response_text) - 1)
    ELSE response_text

\* json.loads: one JSON document and nothing else, or JSONDecodeError
json_loads(text) ==
    IF Len(text) = 1 /\ text[1].fence = "" /\ text[1].json.kind \in {"dict", "list"}
    THEN [ok |-> TRUE, value |-> text[1].json]
    ELSE [ok |-> FALSE, value |-> NoJson]

\* json.dumps(parsed_json, indent=2, ensure_ascii=False)
json_dumps(value) == <<TextLine(value)>>

\* reco_llm(e): the formatted JSON text, or None after a printed message
\* (a response that does not parse, a failed or blocked remote call); the
\* two read_csv calls are outside its try
reco_llm(remote, csv_found) ==
    IF ~csv_found
    THEN [status |-> "raise", exc |-> "FileNotFoundError", t |-> "none", text |-> <<>>]
    ELSE IF remote.outcome # "text"
    THEN [status |-> "ok", exc |-> "", t |-> "none", text |-> <<>>]
    ELSE LET parsed == json_loads(cleaned_json(remote.lines))
         IN  IF parsed.ok
             THEN [status |-> "ok", exc |-> "", t |-> "str",
                   text |-> json_dumps(parsed.value)]
             ELSE [status |-> "ok", exc |-> "", t |-> "none", text |-> <<>>]

\* [course["Title"] for course in data.get("Cours_Recommandés", [])]
recommended_titles(data) ==
    LET items == IF data.key = "Cours_Recommandes" THEN data.items ELSE <<>>
        bad   == { i \in 1..Len(items) :
                     ~items[i].isdict \/ "Title" \notin items[i].has }
    IN  IF data.key = "Cours_Recommandes" /\ data.val # "list"
        THEN [status |-> "raise", exc |-> "TypeError", titles |-> {}]
        ELSE IF bad # {}
        THEN LET i == CHOOSE x \in bad : \A y \in bad : x <= y
             IN  [status |-> "raise",
                  exc    |-> IF items[i].isdict THEN "KeyError" ELSE "TypeError",
                  titles |-> {}]
        ELSE [status |-> "ok", exc |-> "",
              titles |-> { items[i].f["Title"] : i \in 1..Len(items) }]

\* process_test_reco: everything up to the template is inside one try, and
\* the page gets error = "Erreur : ..." for any exception
process_test_reco(remote, csv_found) ==
    LET Failed(exc) == Rendered("test_reco.html", <<>>, <<>>, <<>>, exc)
    IN
    IF ~rt_db THEN Failed("AttributeError")
    ELSE
    LET json_response == reco_llm(remote, csv_found)
    IN
    IF json_response.status = "raise" THEN Failed(json_response.exc)
    ELSE IF json_response.t = "none" THEN Failed("TypeError")
    ELSE
    LET parsed == json_loads(cleaned_json(json_response.text))
    IN
    IF ~parsed.ok THEN Failed("JSONDecodeError")
    ELSE IF parsed.value.kind # "dict" THEN Failed("AttributeError")
    ELSE
    LET titles == recommended_titles(parsed.value)
        IsRecommended(e) == e.isdict /\ Get(e.item, "Title", PyNone) \in titles.titles
        found == SelectSeq(contents.entries, IsRecommended)
    IN
    IF titles.status = "raise" THEN Failed(titles.exc)
    ELSE Rendered("test_reco.html", [i \in 1..Len(found) |-> found[i].item],
                  <<>>, <<>>, "")

\* the loop of llm_recomand over recommended_users
formatted_recommendations(recommended_users_list) ==
    [i \in 1..Len(recommended_users_list) |->
        [ID_Etudiant |-> Str(Get(recommended_users_list[i], "ID_Etudiant",
                                 PyStr(<<"N","/","A">>))),
         Nom |-> Get(recommended_users_list[i], "Nom",
                     PyStr(<<"U","n","k","n","o","w","n"," ","U","s","e","r">>))]]

\* llm_recomand: configured says what reading genai.configured gives, "absent"
\* when the library has no such attribute (the read is outside the try)
llm_recomand(current_user_id, configured, remote) ==
    LET all_users_data == get_all_users_for_recommendation
    IN
    IF configured = "absent" THEN [status |-> "raise", exc |-> "AttributeError",
                                   peers |-> <<>>]
    ELSE IF configured = "false" THEN PeersOk(<<>>)
    ELSE IF all_users_data = {} THEN PeersOk(<<>>)
    ELSE IF current_user_id \notin all_users_data THEN PeersOk(<<>>)
    ELSE IF other_users_data(all_users_data, current_user_id) = {} THEN PeersOk(<<>>)
    ELSE IF remote.outcome # "text" THEN PeersOk(<<>>)
    ELSE
    LET parsed == json_loads(json_string(remote.lines))
        recommended_users_data == parsed.value
    IN
    IF ~parsed.ok THEN PeersOk(<<>>)
    ELSE IF \/ recommended_users_data.kind # "dict"
            \/ recommended_users_data.key # "recommended_users"
            \/ recommended_users_data.val # "list"
    THEN PeersOk(<<>>)
    ELSE IF \E i \in 1..Len(recommended_users_data.items) :
                ~recommended_users_data.items[i].isdict
    THEN PeersOk(<<>>)
    ELSE PeersOk(formatted_recommendations(recommended_users_data.items))

\* an answer for process_test_reco: one course, titled as a course of the
\* catalog
RecommendedCourses ==
    JsonObject("Cours_Recommandes", "list",
               << [isdict |-> TRUE, has |-> {"Title"},
                   f |-> [NoJsonFields EXCEPT !["Title"] = ItemRust.f["Title"]]] >>)

\* an answer for llm_recomand: two users, the second without any field
RecommendedUsers ==
    JsonObject("recommended_users", "list",
               << [isdict |-> TRUE, has |-> {"ID_Etudiant", "Nom"},
                   f |-> [NoJsonFields EXCEPT !["ID_Etudiant"] = PyInt(2),
                                              !["Nom"] = PyStr(<<"B","o","b">>)]],
                  [isdict |-> TRUE, has |-> {}, f |-> NoJsonFields] >>)

\* the documents the remote service may send: the two answers, a course
\* without Title, a user that is a string, the key over a number, an object
\* without the key, an array, prose
JsonPool ==
    { RecommendedCourses, RecommendedUsers,
      JsonObject("Cours_Recommandes", "list",
                 << [isdict |-> TRUE, has |-> {}, f |-> NoJsonFields] >>),
      JsonObject("recommended_users", "list",
                 << [isdict |-> FALSE, has |-> {}, f |-> NoJsonFields] >>),
      JsonObject("Cours_Recommandes", "scalar", <<>>),
      JsonObject("recommended_users", "scalar", <<>>),
      JsonObject("", "", <<>>),
      JsonArray, JsonProse }

Fenced(open, doc) == <<FenceLine(open), TextLine(doc), FenceLine(BareFence)>>

\* what the remote service may answer: a document alone, a document between
\* fence markers, with or without the word json, or after an opening marker
ResponsePool ==
    { <<TextLine(doc)>> : doc \in JsonPool }
    \cup { Fenced(JsonFence, doc) :
             doc \in {RecommendedCourses, RecommendedUsers, JsonProse} }
    \cup { Fenced(BareFence, RecommendedUsers),
           <<FenceLine(JsonFence), TextLine(RecommendedUsers)>> }

RemotePool ==
    { [outcome |-> "text", lines |-> r] : r \in ResponsePool }
    \cup { [outcome |-> "raises", lines |-> <<>>],
           [outcome |-> "blocked", lines |-> <<>>] }

ConfiguredPool == {"absent", "false", "true"}

call_process_test_reco(remote, csv_found) ==
    /\ call' = [NoCall EXCEPT !.op = "process_test_reco", !.remote = remote,
                              !.fetch = IF csv_found THEN "" ELSE "csv"]
    /\ ret' = process_test_reco(remote, csv_found)
    /\ UNCHANGED <<rt_db, users, contents, dataset, module_state, vec_profile, vec_terms,
                   vec_args0, vec_out, vec_prev, vec_calls>>

call_llm_recomand(uid, configured, remote) ==
    /\ call' = [NoCall EXCEPT !.op = "llm_recomand", !.uid = uid,
                              !.lib = configured, !.remote = remote]
    /\ LET r == llm_recomand(uid, configured, remote)
       IN  ret' = [NoRet EXCEPT !.status = r.status, !.exc = r.exc,
                                !.peers = r.peers]
    /\ UNCHANGED <<rt_db, users, contents, dataset, module_state, vec_profile, vec_terms,
                   vec_args0, vec_out, vec_prev, vec_calls>>

InitLlm == InitPages

NextLlm ==
    \/ \E shape \in {"list", "dict"} :
           contents_append(shape, [isdict |-> TRUE, item |-> ItemRust])
    \/ \E u \in {"u1", "u2"} : profile_create(u)
    \/ \E remote \in RemotePool, csv_found \in BOOLEAN :
           call_process_test_reco(remote, csv_found)
    \/ \E configured \in ConfiguredPool, remote \in RemotePool :
           call_llm_recomand("u1", configured, remote)

SpecLlm == InitLlm /\ [][NextLlm]_vars

-----------------------------------------------------------------------------
(* Sign-in handlers of app.py                                              *)

Bob == <<"B","o","b">>
AvatarUrl == <<"h","t","t","p","s",":","/","/","a",".","b","/","p",".","p","n","g">>
EmptyStr == PyStr(<<>>)

\* the name and the picture a token may carry
TokenNamePool == { PyNone, PyStr(Bob) }
TokenPicturePool == { PyNone, PyStr(AvatarUrl) }
\* what may go wrong during a sign-in: nothing, the verification of the
\* token, or an operation on the profile store
FaultPool == { "", "token", "store" }
SignInUids == { "u1", "u2" }

\* the node a sign-in handler writes for a uid without profile:
\* user_ref.set({... "Communautés": [], "Nombre_Interactions": 0, ...})
initial_profile(name, photo_url) ==
    [NoProfile EXCEPT !.stored = TRUE, !.account = TRUE, !.name = name,
                      !.photo_url = photo_url, !.bio = EmptyStr]

\* request.session["user"] = {...} and the response of a sign-in that worked
SignedIn == [NoRet EXCEPT !.status = "ok", !.logged = "session"]
\* raise HTTPException(...) of google_login and github_login
HttpError == [NoRet EXCEPT !.status = "raise", !.exc = "HTTPException"]
\* request.session["error"] = ... and the redirect back to the form
FormError == [NoRet EXCEPT !.status = "failed", !.logged = "error"]

\* an account of the authentication service made outside these handlers: by
\* the sign-up of the client SDK, or in the console
account_create(u) ==
    /\ ~users[u].account
    /\ users' = [users EXCEPT ![u].account = TRUE]
    /\ call' = NoCall /\ ret' = NoRet
    /\ UNCHANGED <<rt_db, contents, dataset, module_state, vec_profile, vec_terms, vec_args0,
                   vec_out, vec_prev, vec_calls>>

\* POST /auth/google with a token of the user whose uid is, or will be, u
google_login(u, name, picture, fault) ==
    /\ call' = [NoCall EXCEPT !.op = "google_login", !.uid = u, !.fetch = fault]
    /\ IF fault = "token"
       THEN ret' = HttpError /\ users' = users
       ELSE IF users[u].account
       THEN ret' = SignedIn /\ users' = users
       ELSE IF ~rt_db
       THEN /\ ret' = SignedIn
            /\ users' = [users EXCEPT ![u].account = TRUE]
       ELSE IF fault = "store"
       THEN /\ ret' = HttpError
            /\ users' = [users EXCEPT ![u].account = TRUE]
       ELSE /\ ret' = SignedIn
            /\ users' = [users EXCEPT ![u] =
                   initial_profile(OrElse(name, EmptyStr), OrElse(picture, EmptyStr))]
    /\ UNCHANGED <<rt_db, contents, dataset, module_state, vec_profile, vec_terms, vec_args0,
                   vec_out, vec_prev, vec_calls>>

\* POST /auth/github with a token of the account u
github_login(u, name, picture, fault) ==
    /\ call' = [NoCall EXCEPT !.op = "github_login", !.uid = u, !.fetch = fault]
    /\ IF fault = "token" \/ ~users[u].account
       THEN ret' = HttpError /\ users' = users
       ELSE IF ~rt_db
       THEN ret' = SignedIn /\ users' = users
       ELSE IF fault = "store"
       THEN ret' = HttpError /\ users' = users
       ELSE IF ~users[u].stored
       THEN /\ ret' = SignedIn
            /\ users' = [users EXCEPT ![u] = initial_profile(name, picture)]
       ELSE /\ ret' = SignedIn
            /\ users' = [users EXCEPT
                   ![u].name = name,
                   ![u].photo_url = IF picture.t # "none" THEN picture
                                    ELSE users[u].photo_url]
    /\ UNCHANGED <<rt_db, contents, dataset, module_state, vec_profile, vec_terms, vec_args0,
                   vec_out, vec_prev, vec_calls>>

\* POST /auth/login with a token of the account u: the store is not touched
firebase_login(u, fault) ==
    /\ call' = [NoCall EXCEPT !.op = "firebase_login", !.uid = u, !.fetch = fault]
    /\ IF fault = "token" \/ ~users[u].account
       THEN ret' = FormError
       ELSE ret' = SignedIn
    /\ UNCHANGED <<rt_db, users, contents, dataset, module_state, vec_profile, vec_terms,
                   vec_args0, vec_out, vec_prev, vec_calls>>

\* POST /auth/register with a token of the account u
firebase_register(u, name, fault) ==
    /\ call' = [NoCall EXCEPT !.op = "firebase_register", !.uid = u, !.fetch = fault]
    /\ IF fault = "token" \/ ~users[u].account
       THEN ret' = FormError /\ users' = users
       ELSE IF ~rt_db
       THEN ret' = SignedIn /\ users' = users
       ELSE IF fault = "store"
       THEN ret' = FormError /\ users' = users
       ELSE IF ~users[u].stored
       THEN /\ ret' = SignedIn
            /\ users' = [users EXCEPT ![u] = initial_profile(name, PyNone)]
       ELSE ret' = SignedIn /\ users' = users
    /\ UNCHANGED <<rt_db, contents, dataset, module_state, vec_profile, vec_terms, vec_args0,
                   vec_out, vec_prev, vec_calls>>

InitSignIn == InitPeers

NextSignIn ==
    \/ \E u \in SignInUids : account_create(u)
    \/ \E sk \in SkillsPool : profile_write("u1", "skills", sk)
    \/ \E ia \in InteractedPool : profile_write("u1", "interacted", ia)
    \/ \E n \in {0, 3} : profile_write("u1", "n_interactions", n)
    \/ \E u \in SignInUids, name \in TokenNamePool, picture \in TokenPicturePool,
          fault \in FaultPool : google_login(u, name, picture, fault)
    \/ \E u \in SignInUids, name \in TokenNamePool, picture \in TokenPicturePool,
          fault \in FaultPool : github_login(u, name, picture, fault)
    \/ \E u \in SignInUids, fault \in FaultPool : firebase_login(u, fault)
    \/ \E u \in SignInUids, name \in TokenNamePool, fault \in FaultPool :
          firebase_register(u, name, fault)

SpecSignIn == InitSignIn /\ [][NextSignIn]_vars

-----------------------------------------------------------------------------
(* Video-id requests: extract_youtube_id on the links a catalog may hold   *)

UrlSchemes ==
    { <<>>,
      <<"h","t","t","p","s",":","/","/">>,
      <<"h","t","t","p",":","/","/">> }
UrlSubdomains ==
    { <<>>,
      <<"w","w","w",".">> }
UrlHostPaths ==
    { <<"y","o","u","t","u","b","e",".","c","o","m","/","w","a","t","c","h","?","v","=">>,
      <<"y","o","u","t","u","b","e",".","c","o","m","/","e","m","b","e","d","/">>,
      <<"y","o","u","t","u",".","b","e","/">>,
      <<"y","o","u","t","u","b","e","-","n","o","c","o","o","k","i","e",".","c","o","m","/","e","m","b","e","d","/">>,
      <<"y","o","u","t","u","b","e",".","c","o","m","/","v","/">>,
      <<"y","o","u","t","u","b","e",".","c","o","m","/","w","a","t","c","h","?","f","e","a","t","u","r","e","=","s","h","a","r","e","&","v","=">>,
      <<"y","o","u","t","u","b","e",".","c","o","m","/","c","h","a","n","n","e","l","/">>,
      <<"y","o","u","t","u","b","e",".","c","o","m","/">>,
      <<"e","x","a","m","p","l","e",".","c","o","m","/">>,
      <<"e","x","a","m","p","l","e",".","c","o","m","/","w","a","t","c","h","?","v","=">> }
UrlRests ==
    { <<"d","Q","w","4","w","9","W","g","X","c","Q">>,
      <<"a","b","c","-","D","E","F","_","1","2","3">>,
      <<"d","Q","w","4","w","9","W","g","X","c","Q","&","t","=","4","2">>,
      <<"d","Q","w","4","w","9","W","g","X","c","Q","?","t","=","4","2">>,
      <<"v","i","d","e","o">>,
      <<>>,
      <<"U","C","1","2","3","4","5","6","7","8","9","x","y","z">> }

\* the values of the Link field: None, the empty string and the urls made
\* of a scheme, a subdomain, a host with a path, and a rest
UrlPool ==
    { PyNone } \cup
    { PyStr(a \o b \o c \o d) :
        a \in UrlSchemes, b \in UrlSubdomains, c \in UrlHostPaths, d \in UrlRests }

\* youtube_id = extract_youtube_id(content_item.get("Link"))
call_extract_youtube_id(url) ==
    /\ call' = [NoCall EXCEPT !.op = "extract_youtube_id", !.id = url]
    /\ ret' = [NoRet EXCEPT !.status = "ok", !.value = extract_youtube_id(url)]
    /\ UNCHANGED <<rt_db, users, contents, dataset, module_state, vec_profile, vec_terms,
                   vec_args0, vec_out, vec_prev, vec_calls>>

InitExtract == InitContent

NextExtract == \E url \in UrlPool : call_extract_youtube_id(url)

SpecExtract == InitExtract /\ [][NextExtract]_vars

-----------------------------------------------------------------------------
(* Claims on the content matcher, stated on the store and the result of    *)
(* the last call, without the operators of the matcher                     *)

ContentCall == call.op \in {"content_app", "content_module"}


\* the id the matcher gives to entry i: the item's own id when it carries one,
\* else its storage key (mapping) or its position (list)
AssignedId(i) ==
    LET e == contents.entries[i]
    IN  IF "id" \in e.item.has THEN Str(e.item.f["id"])
        ELSE IF contents.shape = "dict" THEN e.key
        ELSE IntStr(i - 1)

InteractedStrs(profile) == { Str(x) : x \in SeqSet(profile.interacted) }

ClaimKeywords(profile) ==
    { Lower(x.s) : x \in { y \in SeqSet(profile.skills) \cup SeqSet(profile.interests) :
                             y.t = "str" } }

TextOf(item, field) == IF field \in item.has THEN Lower(item.f[field].s) ELSE <<>>

\* entry i is a record, is not interacted, and some keyword is a substring of
\* its lowercased category, description or title
ClaimIncluded(profile, i) ==
    /\ contents.entries[i].isdict
    /\ AssignedId(i) \notin InteractedStrs(profile)
    /\ \E kw \in ClaimKeywords(profile), field \in {"Category", "Description", "Title"} :
           IsSubstring(kw, TextOf(contents.entries[i].item, field))

IncludedSet(profile) ==
    { i \in 1..Len(contents.entries) : ClaimIncluded(profile, i) }

RatingOf(i) ==
    LET it == contents.entries[i].item
    IN  IF "Rating" \in it.has THEN it.f["Rating"] ELSE PyInt(0)

\* C1: no record returned by generate_recommendations (either copy) has an id
\* that is, as a string, in the profile's Derniers_Cours_Interagis
C1_NoInteractedReturned ==
    (ContentCall /\ ret.status = "ok") =>
        \A i \in 1..Len(ret.recs) :
            ret.recs[i].id \notin InteractedStrs(users[call.uid])

\* C1 witness: records were returned while a matching item of the catalog was
\* left out because its id is in the interacted list
C1_Witness ==
    /\ call.op = "content_app" /\ ret.status = "ok" /\ ret.recs # <<>>
    /\ \E i \in 1..Len(contents.entries) :
          /\ contents.entries[i].isdict
          /\ AssignedId(i) \in InteractedStrs(users[call.uid])
          /\ \E kw \in ClaimKeywords(users[call.uid]) :
                IsSubstring(kw, TextOf(contents.entries[i].item, "Title"))

\* C2: the returned sequence has at most 10 records and its Rating values are
\* non-increasing from first to last
C2_SortedTop10 ==
    (call.op = "content_app" /\ ret.status = "ok") =>
        /\ Len(ret.recs) <= 10
        /\ \A i, j \in 1..Len(ret.recs) :
              i < j => NumTenths(ret.recs[i].Rating) >= NumTenths(ret.recs[j].Rating)

\* C2 witness: more than 10 items are included, 10 are returned, and they do
\* not all have the same rating
C2_Witness ==
    /\ call.op = "content_app" /\ ret.status = "ok"
    /\ Cardinality(IncludedSet(users[call.uid])) > 10
    /\ Len(ret.recs) = 10
    /\ ret.recs[1].Rating # ret.recs[10].Rating

\* C3 (as claimed, for both copies): the call returns, and the records returned
\* are those of the included items: all of them when there are at most 10,
\* and 10 of them otherwise
C3_IncludedIff ==
    ContentCall =>
        /\ ret.status = "ok"
        /\ LET inc == IncludedSet(users[call.uid])
           IN  /\ Len(ret.recs) = Min(Cardinality(inc), TopN)
               /\ \A k \in 1..Len(ret.recs) :
                     \E i \in inc : /\ ret.recs[k].id = AssignedId(i)
                                    /\ ret.recs[k].Rating = RatingOf(i)
               /\ Cardinality(inc) <= TopN =>
                     \A i \in inc : \E k \in 1..Len(ret.recs) :
                         /\ ret.recs[k].id = AssignedId(i)
                         /\ ret.recs[k].Rating = RatingOf(i)

\* the same statement for the copy in app.py alone
C3_IncludedIff_App == (call.op = "content_app") => C3_IncludedIff

\* the example of C3: skills ["rust"]-like keywords over the catalog
\* [Intro to Rust (4), Cooking 101 (9)]
C3_Example ==
    /\ contents.shape = "list"
    /\ Len(contents.entries) = 2
    /\ contents.entries[1].item = ItemRust /\ contents.entries[1].isdict
    /\ contents.entries[2].item = ItemCooking /\ contents.entries[2].isdict
    /\ users["u1"].stored
    /\ users["u1"].skills = <<PyStr(<<"R","u","s","t">>), PyInt(5)>>
    /\ users["u1"].interests = <<>>
    /\ users["u1"].interacted = <<>>

C3_ExampleApp ==
    (C3_Example /\ call.op = "content_app") =>
        /\ ret.status = "ok" /\ Len(ret.recs) = 1
        /\ ret.recs[1].Title = ItemRust.f["Title"] /\ ret.recs[1].Rating = PyInt(4)

C3_ExampleModule ==
    (C3_Example /\ call.op = "content_module") =>
        /\ ret.status = "raise" /\ ret.exc = "NameError"

\* C4: an empty sequence, without raising, whenever the profile is empty, its
\* skills and interests are both empty, or the catalog is absent
C4_EmptyInputsGiveEmpty ==
    (/\ ContentCall
     /\ \/ ~users[call.uid].stored
        \/ users[call.uid].skills = <<>> /\ users[call.uid].interests = <<>>
        \/ contents.shape = "none")
    => (ret.status = "ok" /\ ret.recs = <<>>)

\* C4 witness: a stored profile without skills and interests over a catalog
\* that holds records
C4_Witness ==
    /\ call.op = "content_app" /\ ret.status = "ok" /\ ret.recs = <<>>
    /\ users[call.uid].stored
    /\ users[call.uid].skills = <<>> /\ users[call.uid].interests = <<>>
    /\ \E i \in 1..Len(contents.entries) : contents.entries[i].isdict


-----------------------------------------------------------------------------
(* Claims on the peer similarity engine                                    *)

KnnCall == call.op = "knn"

StoredUsers == { u \in Uids : users[u].stored }
Candidates  == StoredUsers \ {call.uid}

NoTags(profile) ==
    profile.skills = <<>> /\ profile.interests = <<>> /\ profile.communities = <<>>

ProfileOf(uid) == IF uid \in Uids THEN users[uid] ELSE NoProfile

\* the terms of the stored users, in order
ClaimVocabulary == sorted_terms(all_terms(StoredUsers))
ClaimVector(u) == vectorize_user_profile(users[u], ClaimVocabulary).vector

PeerIds == [i \in 1..Len(ret.peers) |-> ret.peers[i].ID_Etudiant]

\* C5: whenever the target of a KNN_similarity call has no skills, no
\* interests and no communities, the call returns the empty sequence, also
\* when other users have tags and the vocabulary is not empty.
C5_NoTagsNoPeers ==
    (KnnCall /\ NoTags(ProfileOf(call.uid)))
        => (ret.status = "ok" /\ ret.peers = <<>>)

C5_Witness ==
    /\ KnnCall /\ rt_db /\ call.k >= 1
    /\ call.uid \in StoredUsers
    /\ NoTags(users[call.uid])
    /\ \E u \in Candidates : users[u].skills # <<>>
    /\ ClaimVocabulary # <<>>
    /\ ret.status = "ok" /\ ret.peers = <<>>

\* C6: the result of KNN_similarity holds no record of the target user, and
\* no more than min(k, number of users other than the target) records.
C6_NoTargetAtMostK ==
    KnnCall =>
        /\ ret.status = "ok"
        /\ \A i \in 1..Len(ret.peers) : PeerIds[i] # call.uid
        /\ Len(ret.peers) <= Min(call.k, Cardinality(Candidates))

C6_Witness ==
    /\ KnnCall /\ rt_db /\ call.k = 1
    /\ call.uid \in StoredUsers
    /\ Cardinality(Candidates) >= 2
    /\ ~NoTags(users[call.uid])
    /\ ret.status = "ok"

\* C7: with a stored target, at least one other user and a non-empty
\* vocabulary, KNN_similarity returns min(k, candidates) records, of distinct
\* candidates, nearest first by cosine distance, and no candidate left out is
\* nearer to the target than one returned.
C7_NearestByCosine ==
    (KnnCall /\ rt_db /\ call.uid \in StoredUsers /\ Candidates # {}
             /\ ClaimVocabulary # <<>>)
        => LET tv == ClaimVector(call.uid)
               n  == Len(ret.peers)
           IN  /\ ret.status = "ok"
               /\ n = Min(call.k, Cardinality(Candidates))
               /\ \A i \in 1..n : PeerIds[i] \in Candidates
               /\ \A i, j \in 1..n : i # j => PeerIds[i] # PeerIds[j]
               /\ \A i, j \in 1..n : i < j =>
                      ~CosineLess(tv, ClaimVector(PeerIds[i]), ClaimVector(PeerIds[j]))
               /\ \A i \in 1..n : \A q \in Candidates \ SeqSet(PeerIds) :
                      ~CosineLess(tv, ClaimVector(PeerIds[i]), ClaimVector(q))

\* the same call with a result: a target and a candidate sharing a tag, k >= 1
C7_CaseReached ==
    /\ KnnCall /\ rt_db /\ call.k >= 1
    /\ call.uid \in StoredUsers
    /\ \E u \in Candidates :
           users[u].skills # <<>> /\ users[u].skills = users[call.uid].skills
    /\ ret.peers = <<>>

StudentIdInDataset(id) ==
    \E i \in 1..Len(dataset) :
        IsNumber(id) /\ NumTenths(id) = 10 * dataset[i].ID_Etudiant

\* C8: KNN_similarity returns the empty sequence, and raises nothing, when the
\* store has no user, when the target is its only user, when the target has no
\* stored profile and when no user has a tag; get_user_recommendations returns
\* the empty sequence, and raises nothing, for an id that no row of the dataset
\* has.
C8_NotFoundGivesEmpty ==
    /\ (KnnCall /\ (\/ StoredUsers = {}
                    \/ Candidates = {}
                    \/ call.uid \notin StoredUsers
                    \/ ClaimVocabulary = <<>>))
           => (ret.status = "ok" /\ ret.peers = <<>>)
    /\ (call.op = "students" /\ ~StudentIdInDataset(call.id))
           => (ret.status = "ok" /\ ret.students = <<>>)

C8_Witness ==
    /\ call.op = "students"
    /\ Len(dataset) >= 2
    /\ ~StudentIdInDataset(call.id)
    /\ IsNumber(call.id)
    /\ ret.status = "ok" /\ ret.students = <<>>

\* the four cases of KNN_similarity, each reached
C8_KnnEmptyStore == KnnCall /\ rt_db /\ StoredUsers = {} /\ ret.peers = <<>>
C8_KnnOnlyUser ==
    KnnCall /\ rt_db /\ StoredUsers = {call.uid} /\ ret.peers = <<>>
C8_KnnNoProfile ==
    /\ KnnCall /\ rt_db /\ call.uid \notin StoredUsers
    /\ \E u \in StoredUsers : ~NoTags(users[u])
    /\ ret.peers = <<>>
C8_KnnNoVocabulary ==
    /\ KnnCall /\ rt_db /\ call.uid \in StoredUsers /\ Candidates # {}
    /\ ClaimVocabulary = <<>> /\ ret.peers = <<>>

-----------------------------------------------------------------------------
(* Claims on the profile vectorizer                                        *)

\* the scalar tags of the three tag lists of a profile
ScalarTags(profile) ==
    { x \in SeqSet(profile.skills) \cup SeqSet(profile.interests)
            \cup SeqSet(profile.communities) : x.t \in {"str", "int", "float"} }

\* C9: the vector returned has the length of the vocabulary, entries 0 or 1,
\* and a 1 at i exactly when the lowercased string of some scalar tag of the
\* profile is the i-th term; tags that are no term of the vocabulary set
\* nothing.
C9_VectorMarksTags ==
    vec_calls >= 1 =>
        /\ Len(vec_out) = Len(vec_args0.terms)
        /\ \A i \in 1..Len(vec_out) :
               /\ vec_out[i] \in {0, 1}
               /\ vec_out[i] = 1 <=>
                      \E x \in ScalarTags(vec_args0.profile) :
                          Lower(Str(x)) = vec_args0.terms[i]

C9_Witness ==
    /\ vec_calls >= 1
    /\ \E i \in 1..Len(vec_out) : vec_out[i] = 0
    /\ \E i \in 1..Len(vec_out) : vec_out[i] = 1 /\ vec_args0.terms[i] = Rust
    /\ \E i \in 1..Len(vec_out) : vec_out[i] = 1 /\ vec_args0.terms[i] = <<"5">>
    /\ PyStr(Rust) \notin ScalarTags(vec_args0.profile)
    /\ \E x \in ScalarTags(vec_args0.profile) :
           ~InSeq(Lower(Str(x)), vec_args0.terms)

\* C10: a second vectorization of the same profile against the same
\* vocabulary returns the vector of the first, and every call leaves the
\* profile and the vocabulary as they were.
C10_SameVectorNoSideEffect ==
    /\ vec_profile = vec_args0.profile
    /\ vec_terms = vec_args0.terms
    /\ vec_calls >= 2 => vec_out = vec_prev

C10_Witness ==
    /\ vec_calls >= 2
    /\ \E i \in 1..Len(vec_out) : vec_out[i] = 1
    /\ \E x \in ScalarTags(vec_profile) : ~InSeq(Lower(Str(x)), vec_terms)
    /\ vec_out = vec_prev


-----------------------------------------------------------------------------
(* Claims on ratings, evaluation and the collaborative filtering wrappers  *)

SkillsParse == \A i \in 1..Len(dataset) : "Competences" \notin dataset[i].malformed

\* the number of rating tuples due to the rows before row i
RECURSIVE RatingsBefore(_)
RatingsBefore(i) ==
    IF i <= 1 THEN 0
    ELSE RatingsBefore(i - 1) + Len(dataset[i - 1].Competences)

\* min(interactions/100*5, 5) * (1 + skillCount/10), in 200ths
ClaimScore(interactions, skillCount) ==
    (IF interactions >= 100 THEN 100 ELSE interactions) * (10 + skillCount)

\* C11: create_ratings_df on a dataset whose skills cells all parse returns
\* one tuple (str(id), skill, score) per row and skill of the row's list, in
\* order, and no other, with score = min(interactions/100*5, 5) *
\* (1 + skillCount/10): 3.0 for 50 interactions and 2 skills, 5.5 for 100
\* interactions and 1 skill.
C11_OneRatingPerSkill ==
    (call.op = "ratings" /\ SkillsParse) =>
        /\ ret.status = "ok"
        /\ Len(ret.ratings) = RatingsBefore(Len(dataset) + 1)
        /\ \A i \in 1..Len(dataset) : \A j \in 1..Len(dataset[i].Competences) :
               LET t == ret.ratings[RatingsBefore(i) + j]
                   n == dataset[i].Nombre_Interactions
                   c == Len(dataset[i].Competences)
               IN  /\ t.user = IntStr(dataset[i].ID_Etudiant)
                   /\ t.item = dataset[i].Competences[j]
                   /\ t.rating = ClaimScore(n, c)
                   /\ (n = 50 /\ c = 2) => t.rating = 3 * RatingUnit
                   /\ (n = 100 /\ c = 1) => 2 * t.rating = 11 * RatingUnit

C11_Witness ==
    /\ call.op = "ratings" /\ SkillsParse
    /\ Len(dataset) >= 2
    /\ \E n \in 1..Len(ret.ratings) : ret.ratings[n].rating = 3 * RatingUnit
    /\ \E n \in 1..Len(ret.ratings) : 2 * ret.ratings[n].rating = 11 * RatingUnit

\* C12: when the skills cell of some row does not parse, create_ratings_df
\* reports the parse error and returns no rating tuple at all, whatever the
\* other rows hold.
C12_BadRowFailsWhole ==
    (call.op = "ratings" /\ ~SkillsParse) =>
        /\ ret.ratings = <<>>
        /\ ret.logged = ParseError

C12_Witness ==
    /\ call.op = "ratings" /\ ~SkillsParse
    /\ \E i \in 1..Len(dataset) :
           "Competences" \notin dataset[i].malformed /\ dataset[i].Competences # <<>>
    /\ ret.ratings = <<>>
    /\ ret.logged = ParseError

\* no row yields a rating tuple
NoRatings ==
    ~SkillsParse \/ \A i \in 1..Len(dataset) : dataset[i].Competences = <<>>

\* C13: evaluate_surprise_models raises nothing; it returns an error object
\* when there is no rating and when cross-validation raises, and the metrics
\* of the two models otherwise.
C13_EvaluateNeverRaises ==
    call.op = "evaluate" =>
        /\ ret.status = "ok"
        /\ ret.report.kind \in {"error", "metrics"}
        /\ NoRatings => (ret.report.kind = "error" /\ ret.report.error = NoValidRatings)
        /\ call.lib = "raise" => ret.report.kind = "error"
        /\ (call.lib = "ok" /\ call.lib2 = "raise") => ret.report.kind = "error"

C13_Witness ==
    /\ call.op = "evaluate"
    /\ NoRatings
    /\ Len(dataset) >= 2
    /\ ret.status = "ok"
    /\ ret.report = ErrorReport(NoValidRatings)

\* the evaluation also ends with an error object when cross-validation raises
C13_CvRaises ==
    /\ call.op = "evaluate" /\ ~NoRatings /\ call.lib = "raise"
    /\ ret.status = "ok" /\ ret.report.kind = "error"

\* the evaluation returns metrics
C13_Metrics == call.op = "evaluate" /\ ret.report.kind = "metrics"

CfCall == call.op \in {"cf_knn", "cf_svd"}

\* C14: get_knn_recommendations and get_svd_recommendations raise nothing;
\* when the data does not parse or the library raises, they return [].
C14_CfNeverRaises ==
    CfCall =>
        /\ ret.status = "ok"
        /\ (call.lib = "raise" \/ ~SkillsParse) => ret.recs = <<>>

C14_Witness ==
    /\ call.op = "cf_svd"
    /\ call.lib = "raise"
    /\ SkillsParse /\ ~NoRatings
    /\ ret.status = "ok" /\ ret.recs = <<>>

\* the predictions of the call for the requesting user, best first
ClaimUserPredictions ==
    sorted_by_est(user_predictions(
        model_test(anti_testset(ratings_from(dataset, 1)), call.lib), call.id))

\* C15: when training succeeds and the requesting user has a prediction,
\* get_svd_recommendations returns min(N, predictions of the user) records,
\* with the estimates of the user's best predictions in descending order, and
\* get_knn_recommendations returns at least one record for them.
C15_TopNOfUserPredictions ==
    (CfCall /\ SkillsParse /\ call.lib # "raise" /\ ClaimUserPredictions # <<>>)
        => /\ ret.status = "ok"
           /\ call.op = "cf_svd" =>
                  /\ Len(ret.recs) = Min(call.k, Len(ClaimUserPredictions))
                  /\ \A n \in 1..Len(ret.recs) :
                         ret.recs[n].Score = ClaimUserPredictions[n].est
           /\ call.op = "cf_knn" => ret.recs # <<>>

\* the two wrappers taken apart
C15_Svd == call.op = "cf_svd" => C15_TopNOfUserPredictions
C15_Knn == call.op = "cf_knn" => C15_TopNOfUserPredictions

\* a call of get_svd_recommendations that does return records
C15_SvdReturns == call.op = "cf_svd" /\ ret.recs # <<>>

\* C16: the result of get_global_recommendations is computed from the dataset
\* file as it is during the call: it is the first six rows of the file in
\* descending order of interactions.
C16_ResultFromCurrentSnapshot ==
    call.op = "global" =>
        \E o \in descending_orders(dataset) :
            ret.recs = global_recommendations(dataset, o)

\* get_global_recommendations answers from the module-level df while a call
\* of add_user_to_dataset has replaced the file
C16_StaleDuringAdd ==
    /\ call.op = "global"
    /\ add_user_pc.at = "replaced"
    /\ Len(ret.recs) < Len(dataset)

\* ... and after a call of add_user_to_dataset that raised
C16_StaleAfterAdd ==
    /\ call.op = "global"
    /\ add_user_pc.at = "idle"
    /\ module_df # dataset
    /\ Len(ret.recs) < Len(dataset)


-----------------------------------------------------------------------------
(* Claims on identifiers, page handlers, the LLM path and data shapes      *)

\* the id the store gives entry i: its key in a mapping, its position in a list
StorageId(i) ==
    IF contents.shape = "dict" THEN contents.entries[i].key ELSE IntStr(i - 1)

\* record rec was built from entry i of the catalog
BuiltFrom(rec, i) ==
    LET it == contents.entries[i].item
    IN  /\ contents.entries[i].isdict
        /\ rec.Title = Get(it, "Title", UnknownTitle)
        /\ rec.Category = Get(it, "Category", UnknownCategory)
        /\ rec.Description = Get(it, "Description", NoDescription)
        /\ rec.Rating = Get(it, "Rating", PyInt(0))

\* C17 (as claimed): both catalog shapes are accepted, and every record that
\* generate_recommendations of app.py returns carries the storage key
\* (mapping) or the position in the snapshot (list) of the entry it was built
\* from, items with an 'id' field of their own included
C17_IdIsKeyOrPosition ==
    (call.op = "content_app" /\ ret.status = "ok") =>
        \A k \in 1..Len(ret.recs) :
            \E i \in 1..Len(contents.entries) :
                BuiltFrom(ret.recs[k], i) /\ ret.recs[k].id = StorageId(i)

\* C17, part that holds: over a catalog where no item carries an 'id' field,
\* the ids are the keys or the positions, holes of the list counted
C17_WithoutOwnIds ==
    (/\ call.op = "content_app" /\ ret.status = "ok"
     /\ \A i \in 1..Len(contents.entries) : "id" \notin contents.entries[i].item.has)
    => \A k \in 1..Len(ret.recs) :
           \E i \in 1..Len(contents.entries) :
               BuiltFrom(ret.recs[k], i) /\ ret.recs[k].id = StorageId(i)

\* a record is returned for an entry of a list that follows a hole
C17_PositionAfterHole ==
    /\ call.op = "content_app" /\ ret.status = "ok" /\ Len(ret.recs) = 1
    /\ contents.shape = "list" /\ Len(contents.entries) = 2
    /\ ~contents.entries[1].isdict
    /\ ret.recs[1].id = <<"1">>

\* a record is returned for a mapping entry under its key
C17_KeyOfMapping ==
    /\ call.op = "content_app" /\ ret.status = "ok" /\ Len(ret.recs) = 1
    /\ contents.shape = "dict"
    /\ ret.recs[1].id = ContentKey(0)

\* the item at position 0 of a list is returned under its own id, 1
C17_OwnIdReturned ==
    /\ call.op = "content_app" /\ ret.status = "ok" /\ Len(ret.recs) = 1
    /\ contents.shape = "list" /\ Len(contents.entries) = 1
    /\ contents.entries[1].item = ItemOwnId
    /\ ret.recs[1].id = <<"1">>

PageCall == call.op \in {"home", "profile_page", "profile_page_incomplet"}

\* a record of the catalog has a text field that is not a string
IllTypedText ==
    \E i \in 1..Len(contents.entries), field \in {"Category", "Description", "Title"} :
        /\ contents.entries[i].isdict
        /\ field \in contents.entries[i].item.has
        /\ contents.entries[i].item.f[field].t # "str"

\* the recommendation function raises for the user of the call: it meets a
\* record with an ill-typed text field that the user has not interacted with
RecommenderRaises ==
    /\ call.uid \in Uids
    /\ users[call.uid].stored
    /\ \E i \in 1..Len(contents.entries),
          field \in {"Category", "Description", "Title"} :
           /\ contents.entries[i].isdict
           /\ field \in contents.entries[i].item.has
           /\ contents.entries[i].item.f[field].t # "str"
           /\ AssignedId(i) \notin InteractedStrs(users[call.uid])

\* C18 (as claimed, for the three handlers): a page handler never ends in the
\* error page; with the store unavailable, a fetch that fails or a catalog
\* the recommendation function raises on, it renders its own page with an
\* empty recommendation list
C18_PagesAlwaysRender ==
    PageCall =>
        /\ ret.status = "ok"
        /\ ret.page.template \in {"index.html", "profile.html"}
        /\ (~rt_db \/ call.fetch # "" \/ RecommenderRaises)
               => ret.page.recommendations = <<>>

\* C18, part that holds: home and profile_page of app.py
C18_AppHandlersRender ==
    (call.op \in {"home", "profile_page"}) => C18_PagesAlwaysRender

\* profile_page of app.py renders without recommendations although the
\* recommendation function raised on a Title that is a number
C18_FunctionRaised ==
    /\ call.op = "profile_page" /\ ret.status = "ok" /\ rt_db /\ call.fetch = ""
    /\ users[call.uid].stored /\ users[call.uid].skills # <<>>
    /\ users[call.uid].interacted = <<>>
    /\ contents.shape = "list" /\ Len(contents.entries) = 2
    /\ contents.entries[1].item = ItemRust /\ contents.entries[1].isdict
    /\ contents.entries[2].item = ItemBadTitle /\ contents.entries[2].isdict
    /\ ret.page.recommendations = <<>>

\* home renders without recommendations after the read of the profile failed
C18_FetchFailed ==
    /\ call.op = "home" /\ call.fetch = "profile" /\ ret.status = "ok"
    /\ ret.page.general_courses # <<>> /\ ret.page.recommendations = <<>>

\* home renders without the store
C18_StoreDown ==
    /\ call.op = "home" /\ ~rt_db /\ ret.status = "ok"
    /\ ret.page.recommendations = <<>>

\* both handlers of app.py render recommendations when they can be computed
C18_HomeRecommends ==
    /\ call.op = "home" /\ ret.status = "ok" /\ ret.page.recommendations # <<>>
C18_ProfileRecommends ==
    /\ call.op = "profile_page" /\ ret.status = "ok"
    /\ ret.page.recommendations # <<>> /\ ret.page.interacted_courses # <<>>

\* profile_page of app_incomplet.py ends in the error page without the store
C18_IncompletFails ==
    /\ call.op = "profile_page_incomplet" /\ ~rt_db
    /\ ret.status = "raise" /\ ret.exc = "UnboundLocalError"
    /\ ret.page.template = "error.html"

\* C20 (as claimed, for the content function): over a catalog that is neither
\* a list nor a mapping, or that holds a record with a text field of another
\* type than a string, generate_recommendations returns without raising, and
\* returns the empty sequence for the catalog of the wrong shape
C20_ShapeErrorsNeverPropagate ==
    (call.op = "content_app" /\ (contents.shape = "other" \/ IllTypedText))
    => /\ ret.status = "ok"
       /\ contents.shape = "other" => ret.recs = <<>>

\* C20, part that holds: a catalog that is neither a list nor a mapping
\* gives the empty sequence
C20_ScalarCatalogGivesEmpty ==
    (call.op = "content_app" /\ contents.shape = "other")
    => (ret.status = "ok" /\ ret.recs = <<>>)

\* the call was made for a stored profile with skills over a scalar catalog
C20_ScalarCatalog ==
    /\ call.op = "content_app" /\ contents.shape = "other"
    /\ users[call.uid].stored /\ users[call.uid].skills # <<>>
    /\ ret.status = "ok" /\ ret.recs = <<>>

\* the call raised AttributeError on the catalog [{Title: 2024, Rating: 3}]
C20_TitleNumberRaises ==
    /\ call.op = "content_app"
    /\ contents.shape = "list" /\ Len(contents.entries) = 1
    /\ contents.entries[1].item = ItemBadTitle /\ contents.entries[1].isdict
    /\ ret.status = "raise" /\ ret.exc = "AttributeError"

LlmCall == call.op \in {"process_test_reco", "llm_recomand"}

\* the operation asked the remote service and got a text back
Answered ==
    /\ LlmCall /\ call.remote.outcome = "text" /\ rt_db
    /\ call.op = "process_test_reco" => call.fetch = ""
    /\ call.op = "llm_recomand" =>
           /\ call.lib = "true"
           /\ users[call.uid].stored
           /\ \E u \in Uids \ {call.uid} : users[u].stored

\* the text between the optional pair of code-fence markers
Payload ==
    LET text == call.remote.lines
    IN  IF /\ Len(text) >= 2
           /\ text[1].fence = JsonFence /\ text[Len(text)].fence = BareFence
        THEN SubSeq(text, 2, Len(text) - 1)
        ELSE text

\* no other marker is in the text
PlainPayload == \A i \in 1..Len(Payload) : Payload[i].fence = ""

PayloadIsJson ==
    Len(Payload) = 1 /\ Payload[1].json.kind \in {"dict", "list"}

RequiredKey ==
    IF call.op = "process_test_reco" THEN "Cours_Recommandes"
    ELSE "recommended_users"

\* valid JSON: an object with the required top-level key over a list
ValidShaped ==
    /\ PayloadIsJson
    /\ Payload[1].json.kind = "dict"
    /\ Payload[1].json.key = RequiredKey
    /\ Payload[1].json.val = "list"

NoRecommendationsAndError ==
    /\ ret.status = "ok"
    /\ call.op = "process_test_reco" =>
           /\ ret.page.template = "test_reco.html"
           /\ ret.page.recommendations = <<>>
           /\ ret.page.error # ""
    /\ call.op = "llm_recomand" => ret.peers = <<>>

\* C19 (as claimed): a text that, once its optional fence markers are
\* stripped, is not valid JSON or is not an object with the required
\* top-level list key gives no recommendations and an error value, without
\* raising: process_test_reco renders an empty list with an error message,
\* llm_recomand returns []
C19_BadResponseGivesError ==
    (Answered /\ PlainPayload /\ ~ValidShaped) => NoRecommendationsAndError

\* C19, part that holds: a text that is not valid JSON
C19_NotJsonGivesError ==
    (Answered /\ PlainPayload /\ ~PayloadIsJson) => NoRecommendationsAndError

\* C19, part that holds: llm_recomand returns [] for valid JSON without the
\* required key over a list, and process_test_reco always renders its page
C19_NeverRaisesOnText ==
    (Answered /\ PlainPayload /\ ~ValidShaped) =>
        /\ ret.status = "ok"
        /\ call.op = "llm_recomand" => ret.peers = <<>>
        /\ call.op = "process_test_reco" =>
               /\ ret.page.template = "test_reco.html"
               /\ ret.page.recommendations = <<>>

\* C19, part that holds: the fence markers are stripped before parsing, so a
\* fenced object of the required shape with well-formed items is accepted
C19_FencedIsParsed ==
    (/\ Answered /\ PlainPayload /\ ValidShaped
     /\ \A i \in 1..Len(Payload[1].json.items) :
           /\ Payload[1].json.items[i].isdict
           /\ call.op = "process_test_reco" => "Title" \in Payload[1].json.items[i].has)
    => /\ ret.status = "ok"
       /\ call.op = "process_test_reco" => ret.page.error = ""
       /\ call.op = "llm_recomand" => Len(ret.peers) = Len(Payload[1].json.items)

\* process_test_reco renders no recommendations and no error message for an
\* object without the key Cours_Recommandes
C19_MissingKeyNoError ==
    /\ call.op = "process_test_reco" /\ Answered
    /\ call.remote.lines = <<TextLine(JsonObject("", "", <<>>))>>
    /\ ret.status = "ok" /\ ret.page.recommendations = <<>> /\ ret.page.error = ""

\* a fenced answer gives recommendations, in both operations
C19_FencedCourses ==
    /\ call.op = "process_test_reco" /\ Answered
    /\ call.remote.lines[1].fence = JsonFence
    /\ ret.page.recommendations # <<>> /\ ret.page.error = ""
C19_FencedUsers ==
    /\ call.op = "llm_recomand" /\ Answered
    /\ call.remote.lines[1].fence = JsonFence
    /\ Len(ret.peers) = 2

\* prose gives the error message and []
C19_ProseToPage ==
    /\ call.op = "process_test_reco" /\ Answered
    /\ call.remote.lines = <<TextLine(JsonProse)>>
    /\ ret.page.recommendations = <<>> /\ ret.page.error = "TypeError"
C19_ProseToPeers ==
    /\ call.op = "llm_recomand" /\ Answered
    /\ call.remote.lines = <<TextLine(JsonProse)>>
    /\ ret.status = "ok" /\ ret.peers = <<>>

\* llm_recomand raises when the library has no attribute `configured`
C19_ConfiguredAbsentRaises ==
    /\ call.op = "llm_recomand" /\ call.lib = "absent"
    /\ ret.status = "raise" /\ ret.exc = "AttributeError"

-----------------------------------------------------------------------------
(* Claims on the video id, the order of ties, missing fields, the          *)
(* vocabulary, sign-in, the two matchers and the dataset                   *)

ExtractCall == call.op = "extract_youtube_id"

VideoUrlShapes ==
    { <<"y","o","u","t","u","b","e",".","c","o","m","/","w","a","t","c","h","?","v","=">>,
      <<"y","o","u","t","u","b","e",".","c","o","m","/","e","m","b","e","d","/">>,
      <<"y","o","u","t","u",".","b","e","/">> }
VideoIds ==
    { <<"d","Q","w","4","w","9","W","g","X","c","Q">>,
      <<"a","b","c","-","D","E","F","_","1","2","3">> }
VideoUrlTails ==
    { <<>>,
      <<"&","t","=","4","2">>,
      <<"?","t","=","4","2">> }

\* url is a watch, embed or short-link url of the video vid
IsVideoUrlOf(url, vid) ==
    /\ url.t = "str"
    /\ \E a \in UrlSchemes, b \in UrlSubdomains, c \in VideoUrlShapes, d \in VideoUrlTails :
           url.s = a \o b \o c \o vid \o d

\* the url names one of the hosts of the platform
OnPlatform(url) ==
    /\ url.t = "str"
    /\ \/ IsSubstring(<<"y","o","u","t","u","b","e",".","c","o","m","/">>, url.s)
       \/ IsSubstring(<<"y","o","u","t","u",".","b","e","/">>, url.s)
       \/ IsSubstring(<<"y","o","u","t","u","b","e","-","n","o","c","o","o","k","i","e",".","c","o","m","/">>, url.s)

\* C21 (as claimed): extract_youtube_id returns the 11-character id of a
\* watch, embed or short-link url, and None, without error, for an absent
\* url and for every url that is not a video url of the platform
C21_ExtractsVideoId ==
    ExtractCall =>
        /\ ret.status = "ok"
        /\ \A vid \in VideoIds : IsVideoUrlOf(call.id, vid) => ret.value = PyStr(vid)
        /\ (\A vid \in VideoIds : ~IsVideoUrlOf(call.id, vid)) => ret.value = PyNone

\* C21, part that holds: the id of a watch, embed or short-link url
C21_VideoUrlGivesId ==
    ExtractCall =>
        \A vid \in VideoIds : IsVideoUrlOf(call.id, vid) => ret.value = PyStr(vid)

\* C21, part that holds: None for an absent url and for a url of another host
C21_OtherHostGivesNone ==
    (ExtractCall /\ ~OnPlatform(call.id)) => (ret.status = "ok" /\ ret.value = PyNone)

\* the examples of the claim
C21_WatchExample ==
    /\ ExtractCall
    /\ call.id = PyStr(<<"h","t","t","p","s",":","/","/","w","w","w",".","y","o","u","t","u","b","e",".","c","o","m","/","w","a","t","c","h","?","v","=","d","Q","w","4","w","9","W","g","X","c","Q">>)
    /\ ret.value = PyStr(<<"d","Q","w","4","w","9","W","g","X","c","Q">>)
C21_OtherSiteExample ==
    /\ ExtractCall
    /\ call.id = PyStr(<<"h","t","t","p","s",":","/","/","e","x","a","m","p","l","e",".","c","o","m","/","v","i","d","e","o">>)
    /\ ret.value = PyNone
C21_ShortLink ==
    /\ ExtractCall
    /\ call.id = PyStr(<<"y","o","u","t","u",".","b","e","/","d","Q","w","4","w","9","W","g","X","c","Q","?","t","=","4","2">>)
    /\ ret.value = PyStr(<<"d","Q","w","4","w","9","W","g","X","c","Q">>)

\* a channel url of the platform gives the first 11 characters of its path
C21_ChannelGivesId ==
    /\ ExtractCall
    /\ call.id = PyStr(<<"h","t","t","p","s",":","/","/","w","w","w",".","y","o","u","t","u","b","e",".","c","o","m","/","c","h","a","n","n","e","l","/","U","C","1","2","3","4","5","6","7","8","9","x","y","z">>)
    /\ ret.value = PyStr(<<"c","h","a","n","n","e","l","/","U","C","1">>)

\* the included entries of the catalog, by rating descending, entries of equal
\* rating in catalog order
RECURSIVE TieOrder(_)
TieOrder(S) ==
    IF S = {} THEN <<>>
    ELSE LET first == CHOOSE i \in S : \A j \in S \ {i} :
                         \/ NumTenths(RatingOf(j)) < NumTenths(RatingOf(i))
                         \/ NumTenths(RatingOf(j)) = NumTenths(RatingOf(i)) /\ i < j
         IN  <<first>> \o TieOrder(S \ {first})

\* C22: the records recommend_content returns are those of the included
\* items in descending order of rating, two items of equal rating in the
\* order they have in the catalog, and the cut to 10 keeps the first of them
C22_TiesKeepCatalogOrder ==
    (call.op = "content_app" /\ ret.status = "ok") =>
        LET order == TieOrder(IncludedSet(users[call.uid]))
        IN  /\ Len(ret.recs) = Min(Len(order), TopN)
            /\ \A k \in 1..Len(ret.recs) :
                  /\ ret.recs[k].id = AssignedId(order[k])
                  /\ BuiltFrom(ret.recs[k], order[k])

\* C22 witness: more than 10 items are included, the 10th and the 11th of
\* them in order have the same rating, and the records returned hold two
\* ratings
C22_Witness ==
    /\ call.op = "content_app" /\ ret.status = "ok"
    /\ Len(ret.recs) = TopN
    /\ LET order == TieOrder(IncludedSet(users[call.uid]))
       IN  /\ Len(order) > TopN
           /\ RatingOf(order[TopN]) = RatingOf(order[TopN + 1])
           /\ ret.recs[TopN].id = AssignedId(order[TopN])
    /\ ret.recs[1].Rating # ret.recs[TopN].Rating
    /\ ret.recs[TopN - 1].Rating = ret.recs[TopN].Rating

OptionalFields == {"Category", "Description", "Title", "Link", "Rating"}

\* entry i is a record that lacks at least one of the optional fields
LacksField(i) ==
    /\ contents.entries[i].isdict
    /\ ~(OptionalFields \subseteq contents.entries[i].item.has)

\* record rec is the one of entry i
RecordOf(rec, i) == rec.id = AssignedId(i) /\ BuiltFrom(rec, i)

\* C23: over a catalog whose items lack some of Category, Description, Title,
\* Link and Rating, recommend_content returns; every record returned is the
\* one of an item that matches with its missing text fields read as empty,
\* with the defaults in place of its missing fields (0 for the Rating);
\* and the ratings of the records, defaults included, never increase
C23_MissingFieldsDefault ==
    (call.op = "content_app" /\ \E i \in 1..Len(contents.entries) : LacksField(i)) =>
        LET inc == IncludedSet(users[call.uid])
        IN  /\ ret.status = "ok"
            /\ \A k \in 1..Len(ret.recs) : \E i \in inc : RecordOf(ret.recs[k], i)
            /\ \A k \in 1..(Len(ret.recs) - 1) :
                  NumTenths(ret.recs[k].Rating) >= NumTenths(ret.recs[k + 1].Rating)
            /\ Cardinality(inc) <= TopN =>
                  \A i \in inc : \E k \in 1..Len(ret.recs) : RecordOf(ret.recs[k], i)

\* C23 witness: a record of an item without Title, Category is returned
\* before the record of an item without Rating, Link, Category and
\* Description, which comes out with the rating 0
C23_Witness ==
    /\ call.op = "content_app" /\ ret.status = "ok"
    /\ \E k, l \in 1..Len(ret.recs), i, j \in 1..Len(contents.entries) :
          /\ k < l
          /\ RecordOf(ret.recs[k], i) /\ RecordOf(ret.recs[l], j)
          /\ contents.entries[i].item.has \cap {"Title", "Category"} = {}
          /\ NumTenths(ret.recs[k].Rating) > 0
          /\ contents.entries[j].item.has \cap OptionalFields = {"Title"}
          /\ ret.recs[l].Rating = PyInt(0)
          /\ ret.recs[l].EmbedLink = PyNone

\* the lowercased tags of user u
LoweredTags(u) == { Lower(Str(x)) : x \in ScalarTags(users[u]) }

\* C24: in a KNN_similarity call that gets as far as the vocabulary, the
\* terms are in ascending order without duplicates, they are the lowercased
\* tags of all stored users, the target included, and the vector of the
\* target and of every candidate marks, over these same terms, the tags of
\* that user: every tag of every user has exactly one index
C24_OneVocabularyForAll ==
    (KnnCall /\ rt_db /\ call.uid \in StoredUsers /\ Candidates # {}) =>
        /\ \A i \in 1..(Len(ret.terms) - 1) : StrLess(ret.terms[i], ret.terms[i + 1])
        /\ SeqSet(ret.terms) = UNION { LoweredTags(u) : u \in StoredUsers }
        /\ \A u \in StoredUsers :
              /\ Len(ret.vectors[u]) = Len(ret.terms)
              /\ \A i \in 1..Len(ret.terms) :
                    ret.vectors[u][i] = IF ret.terms[i] \in LoweredTags(u) THEN 1 ELSE 0
              /\ \A t \in LoweredTags(u) :
                    Cardinality({ i \in 1..Len(ret.terms) : ret.terms[i] = t }) = 1

\* C24 witness: the target has a tag that no candidate has, a candidate has a
\* tag that the target does not have, both are terms, and the two vectors
\* differ
C24_Witness ==
    /\ KnnCall /\ rt_db /\ call.uid \in StoredUsers
    /\ Len(ret.terms) >= 3
    /\ \E u \in Candidates :
          /\ \E t \in LoweredTags(call.uid) :
                t \in SeqSet(ret.terms) /\ \A v \in Candidates : t \notin LoweredTags(v)
          /\ \E t \in LoweredTags(u) : t \in SeqSet(ret.terms) /\ t \notin LoweredTags(call.uid)
          /\ ret.vectors[u] # ret.vectors[call.uid]
          /\ \E x \in SeqSet(users[u].skills) : x.t = "str" /\ Lower(x.s) # x.s

SignInOps == {"google_login", "github_login", "firebase_login", "firebase_register"}

\* the sign-in of call.uid worked
SignInDone == call.op \in SignInOps /\ ret.status = "ok"

\* the fields of a profile that a sign-in may not reset
Kept(profile) ==
    <<profile.stored, profile.skills, profile.interests, profile.communities,
      profile.n_interactions, profile.interacted>>

\* after a sign-in that worked while the store is available, the profile of
\* the uid is stored
ProfileAfterSignIn == (SignInDone /\ rt_db) => users[call.uid].stored

\* a sign-in leaves the stored profile of every user in the store, with its
\* tags, its interaction count and its interacted contents
SignInKeepsProfiles ==
    call'.op \in SignInOps =>
        \A u \in Uids : users[u].stored => Kept(users'[u]) = Kept(users[u])

\* C25 (as claimed): after any sign-in that worked (Google, GitHub, login or
\* registration by e-mail and password) while the profile store is available,
\* a profile is stored for the uid; and no sign-in deletes a stored profile or
\* resets its skills, interests, communities, interaction count or
\* interacted contents
C25_SignInGivesProfile == []ProfileAfterSignIn /\ [][SignInKeepsProfiles]_vars

\* C25, part that holds: the stored profiles and their lists survive every
\* sign-in
C25_SignInKeepsProfiles == [][SignInKeepsProfiles]_vars

\* C25, part that holds: a profile is stored after a registration and after a
\* GitHub sign-in that worked while the store is available
C25_RegisterGivesProfile ==
    (SignInDone /\ rt_db /\ call.op \in {"github_login", "firebase_register"})
        => users[call.uid].stored

\* a login by e-mail and password worked and the uid has no profile
C25_LoginWithoutProfile ==
    /\ call.op = "firebase_login" /\ ret.status = "ok" /\ rt_db
    /\ ~users[call.uid].stored

\* a Google sign-in of an account that exists worked and the uid has no profile
C25_GoogleWithoutProfile ==
    /\ call.op = "google_login" /\ ret.status = "ok" /\ rt_db
    /\ ~users[call.uid].stored

\* a sign-in of a user whose profile has skills, interacted contents and an
\* interaction count
C25_SignInOverProfile ==
    /\ SignInDone /\ rt_db /\ call.op # "firebase_login"
    /\ users[call.uid].skills # <<>> /\ users[call.uid].interacted # <<>>
    /\ users[call.uid].n_interactions > 0
    /\ users[call.uid].name = PyStr(Bob)

\* what the copy in app.py returns for the profile and the catalog of the call
AppResult == RetOf(generate_recommendations(users[call.uid], contents))

\* C26 (as claimed): for every profile and catalog, generate_recommendations of
\* modules/recommendation_methods.py returns the sequence that
\* generate_recommendations of app.py returns, or fails in the same way
C26_ModuleSameAsApp ==
    (call.op = "content_module") =>
        /\ ret.status = AppResult.status
        /\ ret.exc = AppResult.exc
        /\ ret.recs = AppResult.recs

\* C26, part that holds: whenever the copy of the module returns, it returns
\* what the copy of app.py returns
C26_SameWhenModuleReturns ==
    (call.op = "content_module" /\ ret.status = "ok") => ret.recs = AppResult.recs

\* the copy of the module raises NameError on the interests of a profile for
\* which the copy of app.py returns the empty sequence
C26_InterestsRaise ==
    /\ call.op = "content_module" /\ ret.status = "raise" /\ ret.exc = "NameError"
    /\ users[call.uid].interests # <<>>
    /\ AppResult.status = "ok" /\ AppResult.recs = <<>>

\* the copy of the module raises NameError on the first match of a profile
\* without interests, for which the copy of app.py returns records
C26_MatchRaises ==
    /\ call.op = "content_module" /\ ret.status = "raise" /\ ret.exc = "NameError"
    /\ users[call.uid].interests = <<>>
    /\ AppResult.status = "ok" /\ AppResult.recs # <<>>

AddIdle == add_user_pc.at = "idle"

\* the file as it was when the call of add_user_to_dataset in progress began
FileBeforeAdd ==
    SubSeq(add_user_pc.updated_df, 1, Len(add_user_pc.updated_df) - 1)

\* the step in which a call of add_user_to_dataset raises
AddRaises == add_user_pc.at = "replaced" /\ ret'.status = "raise"

\* between calls, the module-level df holds the rows of the file
DfHasRowsOfFile == AddIdle => module_df = dataset

\* a call that raises leaves the file, df and cosine_sim as they were before it
RaisingAddChangesNothing ==
    AddRaises => /\ dataset' = FileBeforeAdd
                 /\ module_df' = module_df
                 /\ module_cosine_sim' = module_cosine_sim

\* C27 (as claimed): after any sequence of add_user_to_dataset calls, each
\* returning or raising, the module-level df has exactly the rows of the
\* dataset file, and a call that raises leaves the file and the module-level
\* df and cosine_sim unchanged
C27_DfFollowsFile == []DfHasRowsOfFile /\ [][RaisingAddChangesNothing]_vars

\* C27, part that holds: after a call that returned, df and cosine_sim are
\* built from the rows of the file
C27_ReturnedAddSyncs ==
    (AddIdle /\ call.op = "add_user" /\ ret.status = "ok") =>
        module_df = dataset /\ module_cosine_sim = dataset

\* C27, part that holds: a call that raises leaves df and cosine_sim unchanged
C27_RaisingAddKeepsDf ==
    [][AddRaises => module_df' = module_df /\ module_cosine_sim' = module_cosine_sim]_vars

\* a call raised after it had replaced the file: the file has a row that the
\* module-level df does not have
C27_RaisedAfterReplace ==
    /\ AddIdle /\ call.op = "add_user" /\ ret.status = "raise"
    /\ Len(dataset) = Len(module_df) + 1
    /\ SubSeq(dataset, 1, Len(module_df)) = module_df

StudentIds(rows) == { rows[i].ID_Etudiant : i \in 1..Len(rows) }

\* the largest student id of a file that has rows
MaxStudentId(rows) == CHOOSE m \in StudentIds(rows) : \A n \in StudentIds(rows) : n <= m

PairwiseDistinctIds(rows) ==
    \A i, j \in 1..Len(rows) : i # j => rows[i].ID_Etudiant # rows[j].ID_Etudiant

\* the step in which a call of add_user_to_dataset writes the file
AddWrites == add_user_pc.at = "idle" /\ add_user_pc'.at = "replaced"

\* the file after the step is the file before it, row by row, and one more
\* row whose id is the largest id plus one, or 1 after an empty file
AddAppendsNextId ==
    AddWrites =>
        /\ Len(dataset') = Len(dataset) + 1
        /\ SubSeq(dataset', 1, Len(dataset)) = dataset
        /\ dataset'[Len(dataset')].ID_Etudiant =
              IF dataset = <<>> THEN 1 ELSE MaxStudentId(dataset) + 1

\* C28: calls of add_user_to_dataset made one after the other keep the student
\* ids of the file pairwise distinct: each call appends one row whose id is
\* the previous largest id plus one (1 for an empty file, which new_id gives
\* for the empty frame) and leaves the rows that were there as they were
C28_IdsStayDistinct ==
    /\ []PairwiseDistinctIds(dataset)
    /\ [][AddAppendsNextId]_vars
    /\ new_id(NoDataset) = 1

\* C28 witness: two calls have added rows to a file whose largest id was not
\* its number of rows, and the ids are those that follow it
C28_Witness ==
    /\ call.op = "add_user" /\ add_user_pc.at = "idle"
    /\ Len(dataset) >= 3
    /\ LET n == Len(dataset)
       IN  /\ dataset[n].ID_Etudiant = dataset[n - 1].ID_Etudiant + 1
           /\ dataset[n - 1].ID_Etudiant = MaxStudentId(SubSeq(dataset, 1, n - 2)) + 1
           /\ dataset[n].ID_Etudiant # n
           /\ dataset[n].Nom # dataset[n - 1].Nom

HomeCall == call.op = "home" /\ ret.status = "ok"

\* the positions (from 1) of the list catalog whose item is at no other position
SingleItems ==
    { i \in 1..Len(contents.entries) :
        /\ contents.entries[i].isdict
        /\ \A j \in 1..Len(contents.entries) :
              j # i => contents.entries[j].item # contents.entries[i].item }

\* the index under which profile_page looks up entry i: all_contents_list[int(cid)]
LookupIndex(i) == i - 1

\* C29 (as claimed): in a home-page request over a list catalog, the id of an
\* item in the course listing is the id recommend_content gives that item,
\* and both are the index under which profile_page looks the item up
C29_OneIdPerItem ==
    (HomeCall /\ contents.shape = "list") =>
        \A i \in SingleItems :
           /\ \A g \in SeqSet(ret.page.general_courses) :
                 g.item = contents.entries[i].item => g.id = PyInt(LookupIndex(i))
           /\ \A r \in SeqSet(ret.page.recommendations) :
                 BuiltFrom(r, i) => r.id = IntStr(LookupIndex(i))

\* C29, part that holds: the id recommend_content gives an item of a list
\* catalog is the index under which profile_page looks it up
C29_RecommendedIdIsIndex ==
    (HomeCall /\ contents.shape = "list") =>
        \A i \in SingleItems : \A r \in SeqSet(ret.page.recommendations) :
            BuiltFrom(r, i) => r.id = IntStr(LookupIndex(i))

\* C29, part that holds: profile_page shows, for an interacted id that is a
\* whole number, the item at that index of the catalog
C29_ProfileLooksUpIndex ==
    (call.op = "profile_page" /\ ret.status = "ok") =>
        \A d \in SeqSet(ret.page.interacted_courses) :
            d.ID_Etudiant.t = "int" =>
                /\ d.ID_Etudiant.n < Len(contents.entries)
                /\ d.Link = Get(contents.entries[d.ID_Etudiant.n + 1].item, "Link", NoLink)

\* one item is listed under one id and recommended under another, in one page
C29_TwoIdsForOneItem ==
    /\ HomeCall /\ contents.shape = "list"
    /\ \E i \in SingleItems :
          \E g \in SeqSet(ret.page.general_courses),
             r \in SeqSet(ret.page.recommendations) :
                /\ g.item = contents.entries[i].item /\ BuiltFrom(r, i)
                /\ Str(g.id) # r.id
                /\ r.id = IntStr(LookupIndex(i))

\* a profile page that shows an interacted course
C29_ProfileShowsCourse ==
    /\ call.op = "profile_page" /\ ret.status = "ok"
    /\ ret.page.interacted_courses # <<>>

\* every list cell of the file parses
FileParses == \A i \in 1..Len(dataset) : dataset[i].malformed = {}

\* row i of the file is the row of the student the call names
RequesterRow(i) == NumTenths(call.id) = 10 * dataset[i].ID_Etudiant

\* C30: for a student id of the dataset file, get_user_recommendations returns
\* at most top_n records, in descending order of similarity, each the record
\* of a row of the file as it is at the call, none the row of the student:
\* the rows of the other students, all of them when top_n allows
C30_SimilarStudentsFromFile ==
    (call.op = "students" /\ StudentIdInDataset(call.id) /\ FileParses) =>
        /\ ret.status = "ok"
        /\ Len(ret.students) <= call.k
        /\ Len(ret.students) = Min(call.k, Len(dataset) - 1)
        /\ \A n \in 1..(Len(ret.students) - 1) :
              ret.students[n].Similarity >= ret.students[n + 1].Similarity
        /\ \A n \in 1..Len(ret.students) :
              \E i \in 1..Len(dataset) :
                 /\ ~RequesterRow(i)
                 /\ ret.students[n].ID = dataset[i].ID_Etudiant
                 /\ ret.students[n].Nom = dataset[i].Nom
        /\ \A m, n \in 1..Len(ret.students) :
              m # n => ret.students[m].ID # ret.students[n].ID

\* C30 witness: the call is made after add_user_to_dataset has replaced the
\* file and before it has assigned the module-level df; the row just written
\* is returned, and the similarities returned are not all equal
C30_Witness ==
    /\ call.op = "students" /\ ret.status = "ok"
    /\ StudentIdInDataset(call.id)
    /\ add_user_pc.at = "replaced"
    /\ Len(dataset) = Len(module_df) + 1
    /\ Len(ret.students) = Len(dataset) - 1
    /\ \E n \in 1..Len(ret.students) :
          ret.students[n].ID = dataset[Len(dataset)].ID_Etudiant
    /\ ret.students[1].Similarity > ret.students[Len(ret.students)].Similarity

====
